---- MODULE Spec2Model ----
(***************************************************************************)
(* Compliance event processing (policy-engine Lambda) and guarded          *)
(* remediation (remediation-engine Lambda) of the cloud governance         *)
(* platform, as state machines over the external stores they act on.       *)
(*                                                                         *)
(* Every AWS call is one atomic step of an invocation; invocations         *)
(* interleave between calls.  Python dicts are records; a key that a dict  *)
(* may lack is a field the record may lack (Get gives dict.get).           *)
(***************************************************************************)
EXTENDS Integers, Sequences, FiniteSets, TLC

VARIABLES
    cfg,         \* policy-engine environment variables, read at module load
    now,         \* int(time.time())
    exceptions,  \* the exceptions table: a set of items
    history,     \* the compliance-history table: a set of items
    procs,       \* the invocations the scheduler runs
    inv,         \* per policy-engine invocation: position and locals
    rcfg,        \* remediation-engine environment variables, read at module load
    target,      \* the resource the violation is about, in its member account
    ingress,     \* the ingress rule entries of the target (a security group)
    tags,        \* the tags of the target
    pab,         \* the PublicAccessBlockConfiguration of the target (a bucket)
    rinv         \* per remediation-engine invocation: position and locals

polVars == <<cfg, now, exceptions, history, inv>>
remVars == <<rcfg, target, ingress, tags, pab, rinv>>
vars == <<cfg, now, exceptions, history, procs, inv, rcfg, target, ingress, tags, pab, rinv>>

----------------------------------------------------------------------------
(* Bounds of the model *)

\* the clock and every expires_at range over 1..MaxTime
MaxTime == 2
\* the number of policy-engine invocations the scheduler runs in parallel
MaxConcurrent == 2

----------------------------------------------------------------------------
(* Python values *)

None == [py |-> "None"]

Get(d, k, default) == IF k \in DOMAIN d THEN d[k] ELSE default

\* Python truthiness of a value that is a dict or None
Truthy(v) == v # None /\ DOMAIN v # {}

----------------------------------------------------------------------------
(* policy-engine: static tables and pure functions *)

TableRules ==
    { "required-tags", "s3-bucket-public-read-prohibited",
      "s3-bucket-level-public-access-prohibited", "restricted-ssh",
      "restricted-rdp", "s3-bucket-public-write-prohibited",
      "restricted-common-ports", "ec2-instance-managed-by-ssm",
      "iam-user-mfa-enabled", "root-account-mfa-enabled" }

\* the severity table with iam-user-mfa-enabled among the LOW rules
RULE_SEVERITY_mfa_low ==
    [r \in TableRules |->
        CASE r \in { "required-tags", "s3-bucket-public-read-prohibited",
                     "s3-bucket-level-public-access-prohibited", "restricted-ssh",
                     "restricted-rdp", "iam-user-mfa-enabled" } -> "LOW"
          [] r \in {"s3-bucket-public-write-prohibited", "restricted-common-ports"} -> "MEDIUM"
          [] OTHER -> "HIGH"]

RULE_SEVERITY ==
    [r \in TableRules |->
        CASE r = "required-tags" -> "LOW"
          [] r = "s3-bucket-public-read-prohibited" -> "LOW"
          [] r = "s3-bucket-level-public-access-prohibited" -> "LOW"
          [] r = "restricted-ssh" -> "LOW"
          [] r = "restricted-rdp" -> "LOW"
          [] r = "s3-bucket-public-write-prohibited" -> "MEDIUM"
          [] r = "restricted-common-ports" -> "MEDIUM"
          [] r = "ec2-instance-managed-by-ssm" -> "HIGH"
          [] r = "iam-user-mfa-enabled" -> "HIGH"
          [] r = "root-account-mfa-enabled" -> "HIGH"]

\* classify_severity with LOW as the default of the table lookup
classify_severity_default_low(rule_name) ==
    IF rule_name \in DOMAIN RULE_SEVERITY THEN RULE_SEVERITY[rule_name] ELSE "LOW"

classify_severity(rule_name) ==
    IF rule_name \in DOMAIN RULE_SEVERITY THEN RULE_SEVERITY[rule_name] ELSE "MEDIUM"

get_action_for_severity(severity) ==
    CASE severity = "LOW" -> "auto_remediate"
      [] severity = "MEDIUM" -> "notify"
      [] severity = "HIGH" -> "log_only"
      [] OTHER -> "unknown"

\* parse_compliance_event without the check of the message type
parse_compliance_event_any_message_type(event, t) ==
    LET detail == Get(event, "detail", [x \in {} |-> None])
        result == Get(detail, "newEvaluationResult", [x \in {} |-> None])
    IN  [ account_id      |-> Get(event, "account", ""),
          region          |-> Get(event, "region", ""),
          resource_id     |-> Get(detail, "resourceId", ""),
          resource_type   |-> Get(detail, "resourceType", ""),
          rule_name       |-> Get(detail, "configRuleName", ""),
          compliance_type |-> Get(result, "complianceType", ""),
          annotation      |-> Get(result, "annotation", ""),
          timestamp       |-> Get(event, "time", t),
          event_id        |-> Get(event, "id", "") ]

\* event.get(k, default) chains of parse_compliance_event; a missing "time" is
\* replaced by the time of parsing.  Times are seconds, as the clock is.
parse_compliance_event(event, t) ==
    LET detail == Get(event, "detail", [x \in {} |-> None])
        result == Get(detail, "newEvaluationResult", [x \in {} |-> None])
    IN  IF \/ "messageType" \notin DOMAIN detail
           \/ detail.messageType # "ComplianceChangeNotification"
        THEN None
        ELSE [ account_id      |-> Get(event, "account", ""),
               region          |-> Get(event, "region", ""),
               resource_id     |-> Get(detail, "resourceId", ""),
               resource_type   |-> Get(detail, "resourceType", ""),
               rule_name       |-> Get(detail, "configRuleName", ""),
               compliance_type |-> Get(result, "complianceType", ""),
               annotation      |-> Get(result, "annotation", ""),
               timestamp       |-> Get(event, "time", t),
               event_id        |-> Get(event, "id", "") ]

----------------------------------------------------------------------------
(* The two DynamoDB tables.  A table is a set of items; an item is found   *)
(* by its primary key (pk, sk).                                            *)

ItemsAt(table, pk, sk) == {i \in table : i.pk = pk /\ i.sk = sk}

\* table.get_item(Key=...).get("Item")
get_item(table, pk, sk) ==
    IF ItemsAt(table, pk, sk) = {} THEN None
    ELSE CHOOSE i \in ItemsAt(table, pk, sk) : TRUE

\* DynamoDB PutItem: the item replaces whatever item has its primary key
put_item(table, item) == (table \ ItemsAt(table, item.pk, item.sk)) \cup {item}

\* pk = f"EXCEPTION#{account_id}#{resource_id}", sk = f"RULE#{rule_name}"
ExceptionPk(account_id, resource_id) == <<"EXCEPTION", account_id, resource_id>>
ExceptionSk(rule_name) == <<"RULE", rule_name>>

\* check_exception without its status check
check_exception_any_status(lookup, item, t) ==
    IF lookup # "ok" THEN None
    ELSE IF ~Truthy(item) THEN None
    ELSE IF "expires_at" \in DOMAIN item /\ item.expires_at # 0 /\ item.expires_at < t THEN None
    ELSE item

\* check_exception without its expiry check
check_exception_ignoring_expiry(lookup, item, t) ==
    IF lookup # "ok" THEN None
    ELSE IF ~Truthy(item) THEN None
    ELSE IF Get(item, "status", None) # "approved" THEN None
    ELSE item

\* check_exception failing closed: a lookup that raised counts as a waiver
check_exception_fail_closed(lookup, item, t) ==
    IF lookup = "error" THEN [status |-> "approved", reason |-> "lookup failed"]
    ELSE IF lookup # "ok" THEN None
    ELSE IF ~Truthy(item) THEN None
    ELSE IF Get(item, "status", None) # "approved" THEN None
    ELSE IF "expires_at" \in DOMAIN item /\ item.expires_at # 0 /\ item.expires_at < t THEN None
    ELSE item

\* check_exception after the table lookup: lookup is "unconfigured" (no
\* EXCEPTIONS_TABLE), "error" (get_item raised ClientError) or "ok" with item =
\* response.get("Item"); t is int(time.time())
check_exception(lookup, item, t) ==
    IF lookup # "ok" THEN None
    ELSE IF ~Truthy(item) THEN None
    ELSE IF Get(item, "status", None) # "approved" THEN None
    ELSE IF "expires_at" \in DOMAIN item /\ item.expires_at # 0 /\ item.expires_at < t THEN None
    ELSE item

\* pk = f"ACCOUNT#{account_id}#RESOURCE#{resource_id}"
HistoryPk(data) == <<"ACCOUNT", data.account_id, "RESOURCE", data.resource_id>>
\* a sort key that also names the event
HistorySkWithEventId(data) == <<"TIMESTAMP", data.timestamp, data.event_id>>

\* sk = f"TIMESTAMP#{timestamp}"
HistorySk(data) == <<"TIMESTAMP", data.timestamp>>

\* ttl = int(time.time()) + (365 * 2 * 24 * 60 * 60)
TtlSeconds == 63072000

\* the item without the exception attributes
HistoryItemWithoutException(data, t) ==
    [ pk              |-> HistoryPk(data),
      sk              |-> HistorySk(data),
      account_id      |-> data.account_id,
      region          |-> data.region,
      resource_id     |-> data.resource_id,
      resource_type   |-> data.resource_type,
      rule_name       |-> data.rule_name,
      compliance_type |-> data.compliance_type,
      severity        |-> Get(data, "severity", "UNKNOWN"),
      annotation      |-> Get(data, "annotation", ""),
      event_id        |-> data.event_id,
      processed_at    |-> t,
      ttl             |-> t + TtlSeconds ]

\* the item with the severity classified from the rule name when
\* compliance_data has none
HistoryItem_classifying(data, t) ==
    [HistoryItemWithoutException(data, t)
        EXCEPT !.severity = Get(data, "severity", classify_severity(data.rule_name))]
    @@ (IF Get(data, "exception_applied", FALSE)
        THEN [ exception_applied |-> TRUE,
               exception_reason  |-> Get(data, "exception_reason", "") ]
        ELSE [x \in {} |-> None])

\* the item persist_compliance_record builds from compliance_data
HistoryItem(data, t) ==
    [ pk              |-> HistoryPk(data),
      sk              |-> HistorySk(data),
      account_id      |-> data.account_id,
      region          |-> data.region,
      resource_id     |-> data.resource_id,
      resource_type   |-> data.resource_type,
      rule_name       |-> data.rule_name,
      compliance_type |-> data.compliance_type,
      severity        |-> Get(data, "severity", "UNKNOWN"),
      annotation      |-> Get(data, "annotation", ""),
      event_id        |-> data.event_id,
      processed_at    |-> t,
      ttl             |-> t + TtlSeconds ]
    @@ (IF Get(data, "exception_applied", FALSE)
        THEN [ exception_applied |-> TRUE,
               exception_reason  |-> Get(data, "exception_reason", "") ]
        ELSE [x \in {} |-> None])

\* ConditionExpression="attribute_not_exists(pk) OR attribute_not_exists(sk)",
\* evaluated on the item the table holds under the new item's key
ConditionHolds(table, item) == ItemsAt(table, item.pk, item.sk) = {}

\* persist_compliance_record as a plain put_item, without the condition
persist_upsert(table, data, t, backend) ==
    IF backend = "error" THEN [table |-> table, outcome |-> "raised"]
    ELSE [table |-> put_item(table, HistoryItem(data, t)), outcome |-> "written"]

\* persist_compliance_record raising the failed condition like any other error
persist_raising_on_collision(table, data, t, backend) ==
    LET item == HistoryItem(data, t) IN
    IF backend = "error" THEN [table |-> table, outcome |-> "raised"]
    ELSE IF ConditionHolds(table, item)
         THEN [table |-> put_item(table, item), outcome |-> "written"]
         ELSE [table |-> table, outcome |-> "raised"]

\* persist_compliance_record: backend is "ok" or "error" (a ClientError other
\* than the failed condition).  Gives the table afterwards and what the caller
\* sees: "written", "collided" (swallowed) or "raised".
persist_compliance_record(table, data, t, backend) ==
    LET item == HistoryItem(data, t) IN
    IF backend = "error" THEN [table |-> table, outcome |-> "raised"]
    ELSE IF ConditionHolds(table, item)
         THEN [table |-> put_item(table, item), outcome |-> "written"]
         ELSE [table |-> table, outcome |-> "collided"]

----------------------------------------------------------------------------
(* policy-engine: inputs *)

Event(rule, resource, time, id, compliance, messageType) ==
    [ account |-> "111111111111",
      region  |-> "us-east-1",
      time    |-> time,
      id      |-> id,
      detail  |-> [ messageType   |-> messageType,
                    resourceId    |-> resource,
                    resourceType  |-> "AWS::S3::Bucket",
                    configRuleName |-> rule,
                    newEvaluationResult |->
                        [ complianceType |-> compliance,
                          annotation     |-> "violation" ] ] ]

\* Inbound events.  The first two are evaluations of two rules on the same
\* resource at the same second: two events, one history key.
Events ==
    { Event("required-tags", "r1", 1, "e1", "NON_COMPLIANT", "ComplianceChangeNotification"),
      Event("restricted-common-ports", "r1", 1, "e2", "NON_COMPLIANT", "ComplianceChangeNotification"),
      Event("root-account-mfa-enabled", "r2", 1, "e3", "NON_COMPLIANT", "ComplianceChangeNotification"),
      Event("required-tags", "r1", 2, "e4", "COMPLIANT", "ComplianceChangeNotification"),
      Event("required-tags", "r2", 2, "e5", "NON_COMPLIANT", "ScheduledNotification") }

Violations ==
    {e \in Events : /\ e.detail.messageType = "ComplianceChangeNotification"
                    /\ e.detail.newEvaluationResult.complianceType = "NON_COMPLIANT"}

\* a dict without some of its keys
Without(d, ks) == [k \in DOMAIN d \ ks |-> d[k]]

ComplianceChange(rule, id, compliance) ==
    Event(rule, "r1", 1, id, compliance, "ComplianceChangeNotification")

\* One violation for every rule of the severity table and for two rules the
\* table does not have
RuleEvents ==
    { ComplianceChange(r, r, "NON_COMPLIANT")
      : r \in TableRules \cup {"custom-rule", "s3-bucket-ssl-requests-only"} }

\* Events that are not violations: other compliance types, no evaluation result
NotViolationEvents ==
    { ComplianceChange("required-tags", "n1", "COMPLIANT"),
      ComplianceChange("required-tags", "n2", "NOT_APPLICABLE"),
      [ComplianceChange("required-tags", "n3", "NON_COMPLIANT")
          EXCEPT !.detail = Without(@, {"newEvaluationResult"})] }

\* Events that are not compliance change notifications: another message type,
\* no message type, no detail
OtherMessageEvents ==
    { Event("required-tags", "r1", 1, "m1", "NON_COMPLIANT", "ConfigurationItemChangeNotification"),
      [ComplianceChange("required-tags", "m2", "NON_COMPLIANT")
          EXCEPT !.detail = Without(@, {"messageType"})],
      Without(ComplianceChange("required-tags", "m3", "NON_COMPLIANT"), {"detail"}) }

\* Compliance change notifications that lack the account, the resource id or
\* the rule name
AnonymousEvents ==
    { Without(ComplianceChange("required-tags", "a1", "NON_COMPLIANT"), {"account"}),
      [ComplianceChange("required-tags", "a2", "NON_COMPLIANT")
          EXCEPT !.detail = Without(@, {"resourceId"})],
      [ComplianceChange("required-tags", "a3", "NON_COMPLIANT")
          EXCEPT !.detail = Without(@, {"configRuleName"})] }

AllEvents == RuleEvents \cup NotViolationEvents \cup OtherMessageEvents \cup AnonymousEvents

\* the violations the router dispatches
Dispatchable ==
    {e \in Violations : classify_severity(e.detail.configRuleName) \in {"LOW", "MEDIUM"}}

\* Items the dashboard API writes: status pending, approved or rejected;
\* expires_at only for a temporary exception
ExceptionItems ==
    { [ pk |-> ExceptionPk(e.account, e.detail.resourceId),
        sk |-> ExceptionSk(e.detail.configRuleName),
        status |-> s, reason |-> "waiver", approved_by |-> "admin" ]
      : e \in Violations, s \in {"pending", "approved", "rejected"} }
    \cup
    { [ pk |-> ExceptionPk(e.account, e.detail.resourceId),
        sk |-> ExceptionSk(e.detail.configRuleName),
        status |-> s, reason |-> "waiver", approved_by |-> "admin",
        expires_at |-> x ]
      : e \in Violations, s \in {"pending", "approved", "rejected"}, x \in 1..MaxTime }

Configs ==
    [ EXCEPTIONS_TABLE : BOOLEAN, REMEDIATION_LAMBDA : BOOLEAN, NOTIFICATION_LAMBDA : BOOLEAN ]

----------------------------------------------------------------------------
(* policy-engine: one invocation of lambda_handler *)

Invocations == 1..MaxConcurrent

NoCalls == [get_item |-> 0, put_item |-> 0, remediation |-> 0, notification |-> 0]

Idle ==
    [ pc |-> "idle", event |-> None, compliance_data |-> None, exception |-> None,
      lookup |-> "none", persisted |-> "none", dispatched |-> "none",
      sent |-> <<>>, calls |-> NoCalls, result |-> None ]

\* lambda_handler without the skip of resources that are not NON_COMPLIANT
Receive_without_compliance_skip(p, e) ==
    /\ p \in procs
    /\ inv[p].pc \in {"idle", "returned", "raised"}
    /\ LET data == parse_compliance_event(e, now) IN
       inv' = [inv EXCEPT ![p] =
           IF ~Truthy(data)
           THEN [Idle EXCEPT !.pc = "returned", !.event = e,
                    !.result = [statusCode |-> 200, body |-> "Skipped - not a compliance event"]]
           ELSE [Idle EXCEPT !.pc = "check_exception", !.event = e, !.compliance_data = data]]
    /\ UNCHANGED <<cfg, now, exceptions, history, procs, remVars>>

\* lambda_handler up to its first AWS call: parse, then the two skips
Receive(p, e) ==
    /\ p \in procs
    /\ inv[p].pc \in {"idle", "returned", "raised"}
    /\ LET data == parse_compliance_event(e, now) IN
       inv' = [inv EXCEPT ![p] =
           IF ~Truthy(data)
           THEN [Idle EXCEPT !.pc = "returned", !.event = e,
                    !.result = [statusCode |-> 200, body |-> "Skipped - not a compliance event"]]
           ELSE IF data.compliance_type # "NON_COMPLIANT"
           THEN [Idle EXCEPT !.pc = "returned", !.event = e, !.compliance_data = data,
                    !.result = [statusCode |-> 200, body |-> "Skipped - resource is compliant"]]
           ELSE [Idle EXCEPT !.pc = "check_exception", !.event = e, !.compliance_data = data]]
    /\ UNCHANGED <<cfg, now, exceptions, history, procs, remVars>>

\* CheckException with compliance_data a module-level global: the assignment
\* is seen by every invocation that has parsed its event and not finished
CheckException_global_data(p) ==
    /\ p \in procs
    /\ inv[p].pc = "check_exception"
    /\ \E lookup \in IF cfg.EXCEPTIONS_TABLE THEN {"ok", "error"} ELSE {"unconfigured"} :
         LET data == inv[p].compliance_data
             item == get_item(exceptions, ExceptionPk(data.account_id, data.resource_id),
                              ExceptionSk(data.rule_name))
             exception == check_exception(lookup, item, now)
             n == IF cfg.EXCEPTIONS_TABLE THEN 1 ELSE 0
             new == IF Truthy(exception)
                    THEN [ exception_applied |-> TRUE,
                           exception_reason |-> Get(exception, "reason", "") ] @@ data
                    ELSE [ severity |-> classify_severity(data.rule_name) ] @@ data
         IN inv' = [q \in Invocations |->
              IF q = p
              THEN [inv[p] EXCEPT !.pc = "persist", !.lookup = lookup, !.exception = exception,
                                  !.calls.get_item = @ + n, !.compliance_data = new]
              ELSE IF inv[q].pc \in {"check_exception", "persist", "route"}
              THEN [inv[q] EXCEPT !.compliance_data = new]
              ELSE inv[q]]
    /\ UNCHANGED <<cfg, now, exceptions, history, procs, remVars>>

\* check_exception, then classify_severity when there is no exception
CheckException(p) ==
    /\ p \in procs
    /\ inv[p].pc = "check_exception"
    /\ \E lookup \in IF cfg.EXCEPTIONS_TABLE THEN {"ok", "error"} ELSE {"unconfigured"} :
         LET data == inv[p].compliance_data
             item == get_item(exceptions, ExceptionPk(data.account_id, data.resource_id),
                              ExceptionSk(data.rule_name))
             exception == check_exception(lookup, item, now)
             n == IF cfg.EXCEPTIONS_TABLE THEN 1 ELSE 0
         IN inv' = [inv EXCEPT ![p] =
              [@ EXCEPT !.pc = "persist",
                        !.lookup = lookup,
                        !.exception = exception,
                        !.calls.get_item = @ + n,
                        !.compliance_data =
                            IF Truthy(exception)
                            THEN [ exception_applied |-> TRUE,
                                   exception_reason |-> Get(exception, "reason", "") ] @@ data
                            ELSE [ severity |-> classify_severity(data.rule_name) ] @@ data ]]
    /\ UNCHANGED <<cfg, now, exceptions, history, procs, remVars>>

\* Persist with the ClientError of the write logged and the handler going on
Persist_best_effort(p) ==
    /\ p \in procs
    /\ inv[p].pc = "persist"
    /\ \E backend \in {"ok", "error"} :
         LET data == inv[p].compliance_data
             r == persist_compliance_record(history, data, now, backend)
         IN /\ history' = r.table
            /\ inv' = [inv EXCEPT ![p] =
                 [@ EXCEPT !.persisted = r.outcome,
                           !.calls.put_item = @ + 1,
                           !.pc = IF Truthy(inv[p].exception) THEN "returned" ELSE "route",
                           !.result =
                               IF Truthy(inv[p].exception)
                               THEN [ statusCode |-> 200,
                                      body |-> [ message |-> "Skipped - approved exception exists",
                                                 exception_reason |-> Get(inv[p].exception, "reason", ""),
                                                 approved_by |-> Get(inv[p].exception, "approved_by", "") ] ]
                               ELSE None ]]
    /\ UNCHANGED <<cfg, now, exceptions, procs, remVars>>

\* Persist with the put_item tried again after a ClientError
Persist_retrying(p) ==
    /\ p \in procs
    /\ inv[p].pc = "persist"
    /\ inv[p].calls.put_item < 3
    /\ \E backend \in {"ok", "error"} :
         LET data == inv[p].compliance_data
             r == persist_compliance_record(history, data, now, backend)
         IN /\ history' = r.table
            /\ inv' = [inv EXCEPT ![p] =
                 [@ EXCEPT !.persisted = r.outcome,
                           !.calls.put_item = @ + 1,
                           !.pc = IF r.outcome = "raised" THEN "persist"
                                  ELSE IF Truthy(inv[p].exception) THEN "returned"
                                  ELSE "route",
                           !.result =
                               IF r.outcome # "raised" /\ Truthy(inv[p].exception)
                               THEN [ statusCode |-> 200,
                                      body |-> [ message |-> "Skipped - approved exception exists",
                                                 exception_reason |-> Get(inv[p].exception, "reason", ""),
                                                 approved_by |-> Get(inv[p].exception, "approved_by", "") ] ]
                               ELSE None ]]
    /\ UNCHANGED <<cfg, now, exceptions, procs, remVars>>

\* persist_compliance_record on either path, and the return of the excepted path
Persist(p) ==
    /\ p \in procs
    /\ inv[p].pc = "persist"
    /\ \E backend \in {"ok", "error"} :
         LET data == inv[p].compliance_data
             r == persist_compliance_record(history, data, now, backend)
         IN /\ history' = r.table
            /\ inv' = [inv EXCEPT ![p] =
                 [@ EXCEPT !.persisted = r.outcome,
                           !.calls.put_item = @ + 1,
                           !.pc = IF r.outcome = "raised" THEN "raised"
                                  ELSE IF Truthy(inv[p].exception) THEN "returned"
                                  ELSE "route",
                           !.result =
                               IF r.outcome # "raised" /\ Truthy(inv[p].exception)
                               THEN [ statusCode |-> 200,
                                      body |-> [ message |-> "Skipped - approved exception exists",
                                                 exception_reason |-> Get(inv[p].exception, "reason", ""),
                                                 approved_by |-> Get(inv[p].exception, "approved_by", "") ] ]
                               ELSE None ]]
    /\ UNCHANGED <<cfg, now, exceptions, procs, remVars>>

\* invoke_remediation with a bare except around the invoke: the error is logged
\* and the function returns
invoke_remediation_swallowing(configured, data, api) ==
    IF ~configured THEN [sent |-> <<>>, outcome |-> "unconfigured"]
    ELSE [ sent |-> << [FunctionName |-> "REMEDIATION_LAMBDA", InvocationType |-> "Event",
                        Payload |-> [action |-> "remediate", compliance_data |-> data],
                        response |-> api] >>,
           outcome |-> "invoked" ]

\* invoke_remediation / invoke_notification: nothing when the function name
\* is not configured, else one lambda_client.invoke, which succeeds or raises
\* (api, kept with the request as its response)
invoke_remediation(configured, data, api) ==
    IF ~configured THEN [sent |-> <<>>, outcome |-> "unconfigured"]
    ELSE [ sent |-> << [FunctionName |-> "REMEDIATION_LAMBDA", InvocationType |-> "Event",
                        Payload |-> [action |-> "remediate", compliance_data |-> data],
                        response |-> api] >>,
           outcome |-> IF api = "ok" THEN "invoked" ELSE "raised" ]

invoke_notification(configured, data, api) ==
    IF ~configured THEN [sent |-> <<>>, outcome |-> "unconfigured"]
    ELSE [ sent |-> << [FunctionName |-> "NOTIFICATION_LAMBDA", InvocationType |-> "Event",
                        Payload |-> [action |-> "notify", compliance_data |-> data],
                        response |-> api] >>,
           outcome |-> IF api = "ok" THEN "invoked" ELSE "raised" ]

\* a routing whose else branch notifies
route_else_notifies(config, data, api) ==
    IF data.severity = "LOW" THEN invoke_remediation(config.REMEDIATION_LAMBDA, data, api)
    ELSE invoke_notification(config.NOTIFICATION_LAMBDA, data, api)

\* the routing of lambda_handler on the classified severity
route(config, data, api) ==
    IF data.severity = "LOW" THEN invoke_remediation(config.REMEDIATION_LAMBDA, data, api)
    ELSE IF data.severity = "MEDIUM" THEN invoke_notification(config.NOTIFICATION_LAMBDA, data, api)
    ELSE [sent |-> <<>>, outcome |-> "log_only"]

CountSent(sent, fn) == Cardinality({i \in DOMAIN sent : sent[i].FunctionName = fn})

Route(p) ==
    /\ p \in procs
    /\ inv[p].pc = "route"
    /\ \E api \in {"ok", "error"} :
         LET data == inv[p].compliance_data
             r == route(cfg, data, api)
         IN inv' = [inv EXCEPT ![p] =
              [@ EXCEPT !.dispatched = r.outcome,
                        !.sent = r.sent,
                        !.calls.remediation = @ + CountSent(r.sent, "REMEDIATION_LAMBDA"),
                        !.calls.notification = @ + CountSent(r.sent, "NOTIFICATION_LAMBDA"),
                        !.pc = IF r.outcome = "raised" THEN "raised" ELSE "returned",
                        !.result =
                            IF r.outcome = "raised" THEN None
                            ELSE [ statusCode |-> 200,
                                   body |-> [ message |-> "Processed successfully",
                                              severity |-> data.severity,
                                              action |-> get_action_for_severity(data.severity) ] ] ]]
    /\ UNCHANGED <<cfg, now, exceptions, history, procs, remVars>>

\* the first delivery of an event
Deliver(p, e) ==
    /\ inv[p].pc = "idle"
    /\ Receive(p, e)

\* the event source delivers the event again after an invocation that raised
Redeliver(p) ==
    /\ inv[p].pc = "raised"
    /\ Receive(p, inv[p].event)

\* time passes
Tick ==
    /\ now < MaxTime
    /\ now' = now + 1
    /\ UNCHANGED <<cfg, exceptions, history, procs, inv, remVars>>

----------------------------------------------------------------------------
(* remediation-engine: static tables and pure functions *)

REMEDIATION_ROLE_NAME == "CloudGovernanceRemediationRole"
EXTERNAL_ID == "CloudGovernance-Remediation-2024"

Tag(k, v) == [Key |-> k, Value |-> v]

EnvTags(cost_center, environment) ==
    << Tag("Owner", "Platform-Engineering"),
       Tag("CostCenter", cost_center),
       Tag("Project", "CloudGovernancePlatform"),
       Tag("Environment", environment),
       Tag("ManagedBy", "Terraform") >>

DEFAULT_TAGS_BY_ENV ==
    [ dev        |-> EnvTags("DEV-001", "dev"),
      staging    |-> EnvTags("STG-001", "staging"),
      prod       |-> EnvTags("PROD-001", "prod"),
      governance |-> EnvTags("INFRA-001", "governance"),
      tooling    |-> EnvTags("CICD-001", "tooling") ]

DEFAULT_TAGS_FALLBACK == EnvTags("UNKNOWN-001", "unknown")

get_tags_for_environment(environment) ==
    IF environment \in DOMAIN DEFAULT_TAGS_BY_ENV
    THEN DEFAULT_TAGS_BY_ENV[environment]
    ELSE DEFAULT_TAGS_FALLBACK

\* ACCOUNT_ENVIRONMENT_MAP.get(account_id, "dev")
get_environment_for_account_default_dev(config, account_id) ==
    Get(config.ACCOUNT_ENVIRONMENT_MAP, account_id, "dev")

get_environment_for_account(config, account_id) ==
    Get(config.ACCOUNT_ENVIRONMENT_MAP, account_id, "unknown")

\* is_production_account without the lookup in the account map
is_production_account_by_id(config, account_id) ==
    config.PROD_ACCOUNT_ID # "" /\ account_id = config.PROD_ACCOUNT_ID

is_production_account(config, account_id) ==
    IF config.PROD_ACCOUNT_ID # "" /\ account_id = config.PROD_ACCOUNT_ID
    THEN TRUE
    ELSE get_environment_for_account(config, account_id) = "prod"

\* the rules whose remediation the production safety check guards
GuardedRules == {"restricted-ssh", "restricted-rdp"}

\* the safety check without the test of the rule name
safety_veto_any_rule(config, rule_name, account_id) ==
    is_production_account(config, account_id)

\* the safety check of lambda_handler: TRUE when remediation is vetoed
safety_veto(config, rule_name, account_id) ==
    rule_name \in GuardedRules /\ is_production_account(config, account_id)

\* notify_instead_of_remediate forwarding compliance_data as it came
notify_without_escalation(configured, compliance_data, reason) ==
    IF ~configured THEN <<>>
    ELSE << [ FunctionName |-> "NOTIFICATION_LAMBDA", InvocationType |-> "Event",
              Payload |-> [action |-> "notify", compliance_data |-> compliance_data] ] >>

\* notify_instead_of_remediate: the invokes it makes (a ClientError of the
\* invoke is logged and swallowed)
notify_instead_of_remediate(configured, compliance_data, reason) ==
    IF ~configured THEN <<>>
    ELSE << [ FunctionName |-> "NOTIFICATION_LAMBDA", InvocationType |-> "Event",
              Payload |-> [ action |-> "notify",
                            compliance_data |->
                                [ severity |-> "HIGH",
                                  annotation |-> <<reason, ". Manual intervention required.">> ]
                                @@ compliance_data ] ] >>

\* assume_role with the role of one fixed account
assume_role_call_fixed_account(account_id) ==
    [ api |-> "sts.assume_role",
      RoleArn |-> <<"arn:aws:iam::", "111111111111", ":role/", REMEDIATION_ROLE_NAME>>,
      RoleSessionName |-> "GovernanceRemediationEngine",
      ExternalId |-> EXTERNAL_ID ]

\* role_arn = f"arn:aws:iam::{account_id}:role/{REMEDIATION_ROLE_NAME}"
assume_role_call(account_id) ==
    [ api |-> "sts.assume_role",
      RoleArn |-> <<"arn:aws:iam::", account_id, ":role/", REMEDIATION_ROLE_NAME>>,
      RoleSessionName |-> "GovernanceRemediationEngine",
      ExternalId |-> EXTERNAL_ID ]

----------------------------------------------------------------------------
(* Security groups.  The group's ingress rules are a set of entries, one    *)
(* per (protocol, port range, source); describe_security_groups lists them *)
(* grouped into IpPermissions by protocol and port range.  A rule for all  *)
(* protocols ("-1") has no FromPort and no ToPort.                          *)

TcpEntry(from, to, kind, cidr) ==
    [IpProtocol |-> "tcp", FromPort |-> from, ToPort |-> to, kind |-> kind, cidr |-> cidr]

AllTrafficEntry(kind, cidr) == [IpProtocol |-> "-1", kind |-> kind, cidr |-> cidr]

IngressEntries ==
    { TcpEntry(22, 22, "IpRanges", "0.0.0.0/0"),
      TcpEntry(22, 22, "IpRanges", "10.0.0.0/8"),
      TcpEntry(0, 65535, "Ipv6Ranges", "::/0"),
      TcpEntry(443, 443, "IpRanges", "0.0.0.0/0"),
      TcpEntry(3389, 3389, "IpRanges", "0.0.0.0/0"),
      AllTrafficEntry("IpRanges", "0.0.0.0/0") }

PermissionKey(e) ==
    IF "FromPort" \in DOMAIN e
    THEN [IpProtocol |-> e.IpProtocol, FromPort |-> e.FromPort, ToPort |-> e.ToPort]
    ELSE [IpProtocol |-> e.IpProtocol]

\* the order in which describe_security_groups lists permissions and ranges
PermissionOrder ==
    << [IpProtocol |-> "tcp", FromPort |-> 22, ToPort |-> 22],
       [IpProtocol |-> "tcp", FromPort |-> 0, ToPort |-> 65535],
       [IpProtocol |-> "tcp", FromPort |-> 443, ToPort |-> 443],
       [IpProtocol |-> "tcp", FromPort |-> 3389, ToPort |-> 3389],
       [IpProtocol |-> "-1"] >>

CidrOrder == <<"0.0.0.0/0", "10.0.0.0/8", "::/0">>

RangesOf(entries, key, kind) ==
    SelectSeq(CidrOrder,
              LAMBDA c : \E e \in entries :
                  PermissionKey(e) = key /\ e.kind = kind /\ e.cidr = c)

\* response["SecurityGroups"][0]["IpPermissions"]
IpPermissions(entries) ==
    LET keys == SelectSeq(PermissionOrder,
                          LAMBDA k : \E e \in entries : PermissionKey(e) = k)
    IN [i \in DOMAIN keys |->
            keys[i] @@
            [ IpRanges   |-> [j \in DOMAIN RangesOf(entries, keys[i], "IpRanges") |->
                                 [CidrIp |-> RangesOf(entries, keys[i], "IpRanges")[j]]],
              Ipv6Ranges |-> [j \in DOMAIN RangesOf(entries, keys[i], "Ipv6Ranges") |->
                                 [CidrIpv6 |-> RangesOf(entries, keys[i], "Ipv6Ranges")[j]]] ]]

\* target_port = 22 if rule_name == "restricted-ssh" else 3389
SshPort == 22
RdpPort == 3389
target_port(rule_name) == IF rule_name = "restricted-ssh" THEN SshPort ELSE RdpPort

dangerous_cidrs == {"0.0.0.0/0", "::/0"}

\* the loop body revoking the rule as described, with all its ranges
rule_revocations_whole_rule(rule, port) ==
    LET from_port == Get(rule, "FromPort", 0)
        to_port   == Get(rule, "ToPort", 0)
    IN  IF ~(from_port <= port /\ port <= to_port) THEN <<>>
        ELSE IF \E j \in DOMAIN rule.IpRanges : rule.IpRanges[j].CidrIp \in dangerous_cidrs
        THEN << [ IpProtocol |-> Get(rule, "IpProtocol", "tcp"),
                  FromPort |-> from_port, ToPort |-> to_port,
                  IpRanges |-> rule.IpRanges ] >>
        ELSE IF \E j \in DOMAIN rule.Ipv6Ranges : rule.Ipv6Ranges[j].CidrIpv6 \in dangerous_cidrs
        THEN << [ IpProtocol |-> Get(rule, "IpProtocol", "tcp"),
                  FromPort |-> from_port, ToPort |-> to_port,
                  Ipv6Ranges |-> rule.Ipv6Ranges ] >>
        ELSE <<>>

\* the body of the loop over sg["IpPermissions"]: what one rule appends to
\* rules_to_revoke
rule_revocations(rule, port) ==
    LET from_port == Get(rule, "FromPort", 0)
        to_port   == Get(rule, "ToPort", 0)
        v4 == SelectSeq(rule.IpRanges, LAMBDA r : r.CidrIp \in dangerous_cidrs)
        v6 == SelectSeq(rule.Ipv6Ranges, LAMBDA r : r.CidrIpv6 \in dangerous_cidrs)
    IN  IF ~(from_port <= port /\ port <= to_port) THEN <<>>
        ELSE [j \in DOMAIN v4 |->
                 [ IpProtocol |-> Get(rule, "IpProtocol", "tcp"),
                   FromPort |-> from_port, ToPort |-> to_port,
                   IpRanges |-> <<[CidrIp |-> v4[j].CidrIp]>> ]]
             \o
             [j \in DOMAIN v6 |->
                 [ IpProtocol |-> Get(rule, "IpProtocol", "tcp"),
                   FromPort |-> from_port, ToPort |-> to_port,
                   Ipv6Ranges |-> <<[CidrIpv6 |-> v6[j].CidrIpv6]>> ]]

RECURSIVE rules_to_revoke(_, _)
rules_to_revoke(permissions, port) ==
    IF permissions = <<>> THEN <<>>
    ELSE rule_revocations(Head(permissions), port) \o rules_to_revoke(Tail(permissions), port)

\* the sources an IpPermissions element of a revoke call names
PermissionSources(perm) ==
    {<<"IpRanges", perm.IpRanges[j].CidrIp>> :
        j \in DOMAIN Get(perm, "IpRanges", <<>>)}
    \cup
    {<<"Ipv6Ranges", perm.Ipv6Ranges[j].CidrIpv6>> :
        j \in DOMAIN Get(perm, "Ipv6Ranges", <<>>)}

\* the entries of the group that ec2.revoke_security_group_ingress(
\* IpPermissions=[perm]) removes: same protocol, same port range, a named source
Revoked(entries, perm) ==
    {e \in entries :
        /\ e.IpProtocol = perm.IpProtocol
        /\ (e.IpProtocol = "-1"
            \/ (Get(e, "FromPort", -1) = perm.FromPort /\ Get(e, "ToPort", -1) = perm.ToPort))
        /\ <<e.kind, e.cidr>> \in PermissionSources(perm)}

\* revoke_security_group_ingress removing every source of the protocol and
\* port range
revoke_security_group_ingress_by_port(entries, perm) ==
    {e \in entries :
        ~(/\ e.IpProtocol = perm.IpProtocol
          /\ Get(e, "FromPort", -1) = perm.FromPort
          /\ Get(e, "ToPort", -1) = perm.ToPort)}

revoke_security_group_ingress(entries, perm) == entries \ Revoked(entries, perm)

----------------------------------------------------------------------------
(* Tags.  A bucket's tag set is a list, replaced as a whole by              *)
(* put_bucket_tagging (a bucket without one has None).  The tags of the    *)
(* other resource types are a map, and create_tags, tag_resource and       *)
(* add_tags_to_resource add each given key or overwrite its value.         *)

NoTags == [k \in {} |-> ""]

TagKeys(tag_list) == {tag_list[i].Key : i \in DOMAIN tag_list}

TagValue(tag_list, k) == tag_list[CHOOSE i \in DOMAIN tag_list : tag_list[i].Key = k].Value

\* ec2.create_tags, dynamodb/lambda tag_resource, rds.add_tags_to_resource
add_or_overwrite_tags(current, tag_list) ==
    [k \in DOMAIN current \cup TagKeys(tag_list) |->
        IF k \in TagKeys(tag_list) THEN TagValue(tag_list, k) ELSE current[k]]

\* new_tags = current_tags + tags_to_add, without the filter on existing keys
merge_bucket_tags_appending(current_tags, tags_to_add) == current_tags \o tags_to_add

\* new_tags = current_tags + [t for t in tags_to_add if t['Key'] not in existing_keys]
merge_bucket_tags(current_tags, tags_to_add) ==
    current_tags \o SelectSeq(tags_to_add, LAMBDA t : t.Key \notin TagKeys(current_tags))

\* the tag map a tag list stands for
AsMap(tag_list) == [k \in TagKeys(tag_list) |-> TagValue(tag_list, k)]

\* the tags of the target as a map, whatever its type
TagMap(type, tagging) ==
    IF type = "AWS::S3::Bucket"
    THEN (IF tagging = None THEN NoTags ELSE AsMap(tagging.TagSet))
    ELSE tagging

TagApi ==
    [r \in { "AWS::EC2::Instance", "AWS::DynamoDB::Table", "AWS::Lambda::Function",
             "AWS::RDS::DBInstance", "AWS::EC2::SecurityGroup" } |->
        CASE r = "AWS::EC2::Instance" -> "ec2.create_tags"
          [] r = "AWS::DynamoDB::Table" -> "dynamodb.tag_resource"
          [] r = "AWS::Lambda::Function" -> "lambda.tag_resource"
          [] r = "AWS::RDS::DBInstance" -> "rds.add_tags_to_resource"
          [] r = "AWS::EC2::SecurityGroup" -> "ec2.create_tags"]

S3Rules ==
    { "s3-bucket-public-read-prohibited", "s3-bucket-level-public-access-prohibited",
      "s3-bucket-public-write-prohibited" }

\* the dispatch with the security-group branch as its else
first_action_else_security_group(rule_name, resource_type) ==
    IF rule_name \in S3Rules THEN "s3.put_public_access_block"
    ELSE IF rule_name = "required-tags"
    THEN (IF resource_type = "AWS::S3::Bucket" THEN "s3.get_bucket_tagging"
          ELSE IF resource_type = "AWS::DynamoDB::Table" THEN "sts.get_caller_identity"
          ELSE IF resource_type \in DOMAIN TagApi THEN TagApi[resource_type]
          ELSE "return")
    ELSE "ec2.describe_security_groups"

\* remediate_required_tags with ec2.create_tags as its else
first_action_else_create_tags(rule_name, resource_type) ==
    IF rule_name \in S3Rules THEN "s3.put_public_access_block"
    ELSE IF rule_name = "required-tags"
    THEN (IF resource_type = "AWS::S3::Bucket" THEN "s3.get_bucket_tagging"
          ELSE IF resource_type = "AWS::DynamoDB::Table" THEN "sts.get_caller_identity"
          ELSE IF resource_type \in DOMAIN TagApi THEN TagApi[resource_type]
          ELSE "ec2.create_tags")
    ELSE IF rule_name \in {"restricted-ssh", "restricted-rdp"}
    THEN "ec2.describe_security_groups"
    ELSE "undefined"

\* where lambda_handler goes once assume_role has returned: its next AWS call,
\* or "return" when the rule or the resource type has none
first_action(rule_name, resource_type) ==
    IF rule_name \in S3Rules THEN "s3.put_public_access_block"
    ELSE IF rule_name = "required-tags"
    THEN (IF resource_type = "AWS::S3::Bucket" THEN "s3.get_bucket_tagging"
          ELSE IF resource_type = "AWS::DynamoDB::Table" THEN "sts.get_caller_identity"
          ELSE IF resource_type \in DOMAIN TagApi THEN TagApi[resource_type]
          ELSE "return")
    ELSE IF rule_name \in {"restricted-ssh", "restricted-rdp"}
    THEN "ec2.describe_security_groups"
    ELSE "undefined"

----------------------------------------------------------------------------
(* remediation-engine: inputs *)

DevAccount == "111111111111"
ProdAccount == "222222222222"
OtherAccount == "333333333333"
Accounts == {DevAccount, ProdAccount, OtherAccount}

\* ACCOUNT_ENVIRONMENT_MAP
AccountMap == (DevAccount :> "dev") @@ (ProdAccount :> "prod")

RemConfigs ==
    [ NOTIFICATION_LAMBDA : BOOLEAN,
      PROD_ACCOUNT_ID : {"", OtherAccount},
      ACCOUNT_ENVIRONMENT_MAP : {AccountMap} ]

ResourceTypes ==
    { "AWS::EC2::Instance", "AWS::S3::Bucket", "AWS::DynamoDB::Table",
      "AWS::Lambda::Function", "AWS::RDS::DBInstance", "AWS::EC2::SecurityGroup",
      "AWS::SNS::Topic" }

Targets == [account : Accounts, id : {"res-1"}, type : ResourceTypes]

\* the rules AWS Config evaluates on a resource of the type, and one rule
\* the engine has no remediation for
RulesFor(type) ==
    {"required-tags", "iam-user-mfa-enabled"}
    \cup (IF type = "AWS::S3::Bucket" THEN S3Rules ELSE {})
    \cup (IF type = "AWS::EC2::SecurityGroup" THEN {"restricted-ssh", "restricted-rdp"} ELSE {})

ComplianceData(t, rule) ==
    [ account_id |-> t.account, region |-> "us-east-1", resource_id |-> t.id,
      resource_type |-> t.type, rule_name |-> rule, severity |-> "LOW",
      annotation |-> "violation" ]

\* the requests about the target a caller other than the policy engine may
\* send: another action, no action, no compliance_data, compliance_data that
\* lacks one of the required fields
MalformedRequests(t) ==
    { [action |-> "scale_down", compliance_data |-> ComplianceData(t, "required-tags")],
      [compliance_data |-> ComplianceData(t, "required-tags")],
      [action |-> "remediate"] }
    \cup
    { [action |-> "remediate",
       compliance_data |-> [k \in DOMAIN ComplianceData(t, "required-tags") \ {f} |->
                               ComplianceData(t, "required-tags")[k]]]
      : f \in {"account_id", "rule_name", "resource_id", "region"} }

\* the requests about the target: the well-formed ones and the malformed ones
RemEvents(t) ==
    {[action |-> "remediate", compliance_data |-> ComplianceData(t, rule)] : rule \in RulesFor(t.type)}
    \cup MalformedRequests(t)

InitialTags ==
    { <<>>,
      <<Tag("Owner", "alice")>>,
      <<Tag("Team", "core"), Tag("Environment", "legacy")>> }

PublicAccessBlock(b) ==
    [ BlockPublicAcls |-> b, IgnorePublicAcls |-> b,
      BlockPublicPolicy |-> b, RestrictPublicBuckets |-> b ]

----------------------------------------------------------------------------
(* remediation-engine: one invocation of lambda_handler *)

\* the state of the target resource
Resource(entries, tagging, block) == [ingress |-> entries, tags |-> tagging, pab |-> block]

\* tags_before, attempt and origin are not locals of the handler.  tags_before
\* remembers the target's tags as the invocation found them.  attempt tells
\* whether the request is the one the previous invocation raised on ("retry"),
\* the one it returned from ("repeat"), or another ("first"); origin is the
\* state of the target when the first of a row of retries began.
RemIdle ==
    [ pc |-> "idle", event |-> None, environment |-> "", calls |-> <<>>,
      sent |-> <<>>, to_revoke |-> <<>>, current_tags |-> <<>>, result |-> None,
      tags_before |-> NoTags, attempt |-> "first",
      origin |-> Resource({}, NoTags, PublicAccessBlock(FALSE)) ]

\* how a request follows the invocation before it
Attempt(r, ev) ==
    IF r.event = ev /\ r.pc = "raised" THEN "retry"
    ELSE IF r.event = ev /\ r.pc = "returned" THEN "repeat"
    ELSE "first"

\* compliance_data.get(k) with a default for the region
Field_with_default_region(cd, k) == Get(cd, k, IF k = "region" THEN "us-east-1" ELSE "")

Field(cd, k) == Get(cd, k, "")

\* lambda_handler up to its first AWS call: the two 400 answers, the
\* environment, the production safety check
RemReceive(q, ev) ==
    /\ q \in procs
    /\ rinv[q].pc \in {"idle", "returned", "raised"}
    /\ LET cd == Get(ev, "compliance_data", [k \in {} |-> ""]) IN
       rinv' = [rinv EXCEPT ![q] =
           IF Get(ev, "action", "") # "remediate"
           THEN [RemIdle EXCEPT !.pc = "returned", !.event = ev,
                    !.result = [statusCode |-> 400, body |-> "Unknown action"]]
           ELSE IF \E k \in {"account_id", "rule_name", "resource_id", "region"} : Field(cd, k) = ""
           THEN [RemIdle EXCEPT !.pc = "returned", !.event = ev,
                    !.result = [statusCode |-> 400, body |-> "Missing required fields"]]
           ELSE [RemIdle EXCEPT
                    !.event = ev,
                    !.tags_before = TagMap(target.type, tags),
                    !.attempt = Attempt(rinv[q], ev),
                    !.origin = IF Attempt(rinv[q], ev) = "retry" THEN rinv[q].origin
                               ELSE Resource(ingress, tags, pab),
                    !.environment = get_environment_for_account(rcfg, cd.account_id),
                    !.pc = IF safety_veto(rcfg, cd.rule_name, cd.account_id)
                           THEN "lambda.invoke" ELSE "sts.assume_role"]]
    /\ UNCHANGED <<polVars, procs, rcfg, target, ingress, tags, pab>>

\* the vetoed branch with the safety check after assume_role: the credential
\* exchange has been made when the notification is sent
RemNotify_after_assume_role(q) ==
    /\ q \in procs
    /\ rinv[q].pc = "lambda.invoke"
    /\ LET cd == rinv[q].event.compliance_data IN
       rinv' = [rinv EXCEPT ![q] =
           [@ EXCEPT !.pc = "returned",
                     !.calls = Append(@, assume_role_call(cd.account_id) @@ [response |-> "ok"]),
                     !.sent = notify_instead_of_remediate(rcfg.NOTIFICATION_LAMBDA, cd,
                                  "Production safety: SG remediation blocked"),
                     !.result = [ statusCode |-> 200,
                                  body |-> [ message |-> "Production safety: Notification sent instead of remediation",
                                             rule_name |-> cd.rule_name,
                                             account_id |-> cd.account_id ] ] ]]
    /\ UNCHANGED <<polVars, procs, rcfg, target, ingress, tags, pab>>

\* the vetoed branch without its return: the notification, then the remediation
RemNotify_then_remediates(q) ==
    /\ q \in procs
    /\ rinv[q].pc = "lambda.invoke"
    /\ LET cd == rinv[q].event.compliance_data IN
       rinv' = [rinv EXCEPT ![q] =
           [@ EXCEPT !.pc = "sts.assume_role",
                     !.sent = notify_instead_of_remediate(rcfg.NOTIFICATION_LAMBDA, cd,
                                  "Production safety: SG remediation blocked")]]
    /\ UNCHANGED <<polVars, procs, rcfg, target, ingress, tags, pab>>

\* the vetoed branch: notify_instead_of_remediate, then the 200 answer
RemNotify(q) ==
    /\ q \in procs
    /\ rinv[q].pc = "lambda.invoke"
    /\ LET cd == rinv[q].event.compliance_data IN
       rinv' = [rinv EXCEPT ![q] =
           [@ EXCEPT !.pc = "returned",
                     !.sent = notify_instead_of_remediate(rcfg.NOTIFICATION_LAMBDA, cd,
                                  "Production safety: SG remediation blocked"),
                     !.result = [ statusCode |-> 200,
                                  body |-> [ message |-> "Production safety: Notification sent instead of remediation",
                                             rule_name |-> cd.rule_name,
                                             account_id |-> cd.account_id ] ] ]]
    /\ UNCHANGED <<polVars, procs, rcfg, target, ingress, tags, pab>>

Success(r) ==
    [ statusCode |-> 200,
      body |-> [ message |-> "Successfully remediated",
                 rule_name |-> r.event.compliance_data.rule_name,
                 resource_id |-> r.event.compliance_data.resource_id,
                 account_id |-> r.event.compliance_data.account_id,
                 environment |-> r.environment ] ]

\* AfterCall with the ClientError of a call logged and not raised again
AfterCall_swallowing_errors(r, call, api, next) ==
    [r EXCEPT !.calls = Append(@, call @@ [response |-> api]),
              !.pc = IF api = "error" /\ call.api = "sts.assume_role" THEN "raised"
                     ELSE IF api = "error" \/ next = "return" THEN "returned" ELSE next,
              !.result = IF api = "error" /\ call.api = "sts.assume_role" THEN None
                         ELSE IF api = "error" \/ next = "return" THEN Success(r) ELSE None]

\* AfterCall with the failure of assume_role logged and passed over
AfterCall_without_credentials(r, call, api, next) ==
    [r EXCEPT !.calls = Append(@, call @@ [response |-> api]),
              !.pc = IF api = "error" /\ call.api # "sts.assume_role" THEN "raised"
                     ELSE IF next = "return" THEN "returned" ELSE next,
              !.result = IF api = "ok" /\ next = "return" THEN Success(r) ELSE None]

\* an invocation after one more AWS call (kept in calls with its response):
\* raised when the call failed, else at its next call, or returned with the
\* success answer
AfterCall(r, call, api, next) ==
    [r EXCEPT !.calls = Append(@, call @@ [response |-> api]),
              !.pc = IF api = "error" THEN "raised"
                     ELSE IF next = "return" THEN "returned" ELSE next,
              !.result = IF api = "ok" /\ next = "return" THEN Success(r) ELSE None]

\* assume_role, then the dispatch on the rule up to the action's first call
RemAssumeRole(q) ==
    /\ q \in procs
    /\ rinv[q].pc = "sts.assume_role"
    /\ \E api \in {"ok", "error"} :
         LET cd == rinv[q].event.compliance_data
             next == first_action(cd.rule_name, Field(cd, "resource_type"))
             r == AfterCall(rinv[q], assume_role_call(cd.account_id), api, next)
         IN rinv' = [rinv EXCEPT ![q] =
              IF api = "ok" /\ next = "undefined"
              THEN [r EXCEPT !.pc = "returned",
                             !.result = [ statusCode |-> 200,
                                          body |-> <<"No remediation defined for ", cd.rule_name>> ]]
              ELSE r]
    /\ UNCHANGED <<polVars, procs, rcfg, target, ingress, tags, pab>>

\* remediate_s3_public_read (also reached through remediate_s3_public_write)
RemPutPublicAccessBlock(q) ==
    /\ q \in procs
    /\ rinv[q].pc = "s3.put_public_access_block"
    /\ \E api \in {"ok", "error"} :
         /\ rinv' = [rinv EXCEPT ![q] =
                AfterCall(@, [api |-> "s3.put_public_access_block",
                              Bucket |-> @.event.compliance_data.resource_id], api, "return")]
         /\ pab' = IF api = "ok" THEN PublicAccessBlock(TRUE) ELSE pab
    /\ UNCHANGED <<polVars, procs, rcfg, target, ingress, tags>>

\* remediate_required_tags on an instance, a table, a function, a database
\* instance or a security group: the one tagging call
RemTagResource(q) ==
    /\ q \in procs
    /\ rinv[q].pc \in {TagApi[r] : r \in DOMAIN TagApi}
    /\ \E api \in {"ok", "error"} :
         LET tags_to_add == get_tags_for_environment(rinv[q].environment) IN
         /\ rinv' = [rinv EXCEPT ![q] =
                AfterCall(@, [api |-> @.pc, Resource |-> @.event.compliance_data.resource_id,
                              Tags |-> tags_to_add], api, "return")]
         /\ tags' = IF api = "ok" THEN add_or_overwrite_tags(tags, tags_to_add) ELSE tags
    /\ UNCHANGED <<polVars, procs, rcfg, target, ingress, pab>>

\* remediate_required_tags on a table: sts.get_caller_identity for the ARN
RemGetCallerIdentity(q) ==
    /\ q \in procs
    /\ rinv[q].pc = "sts.get_caller_identity"
    /\ \E api \in {"ok", "error"} :
         rinv' = [rinv EXCEPT ![q] =
             AfterCall(@, [api |-> "sts.get_caller_identity"], api, "dynamodb.tag_resource")]
    /\ UNCHANGED <<polVars, procs, rcfg, target, ingress, tags, pab>>

\* the read with every ClientError taken for NoSuchTagSet
RemGetBucketTagging_any_error_as_no_tags(q) ==
    /\ q \in procs
    /\ rinv[q].pc = "s3.get_bucket_tagging"
    /\ \E api \in {"ok", "error"} :
         rinv' = [rinv EXCEPT ![q] =
             [@ EXCEPT !.calls = Append(@, [api |-> "s3.get_bucket_tagging",
                                            Bucket |-> rinv[q].event.compliance_data.resource_id,
                                            response |-> api]),
                       !.pc = "s3.put_bucket_tagging",
                       !.current_tags = IF api = "ok" /\ tags # None THEN tags.TagSet ELSE <<>>]]
    /\ UNCHANGED <<polVars, procs, rcfg, target, ingress, tags, pab>>

\* remediate_required_tags on a bucket: the read; NoSuchTagSet reads as no tags
RemGetBucketTagging(q) ==
    /\ q \in procs
    /\ rinv[q].pc = "s3.get_bucket_tagging"
    /\ \E api \in {"ok", "error"} :
         rinv' = [rinv EXCEPT ![q] =
             [AfterCall(@, [api |-> "s3.get_bucket_tagging",
                            Bucket |-> @.event.compliance_data.resource_id], api, "s3.put_bucket_tagging")
              EXCEPT !.current_tags = IF api = "ok" /\ tags # None THEN tags.TagSet ELSE <<>>]]
    /\ UNCHANGED <<polVars, procs, rcfg, target, ingress, tags, pab>>

\* the write of the missing default tags alone, as if put_bucket_tagging added
\* to the tag set of the bucket
RemPutBucketTagging_missing_only(q) ==
    /\ q \in procs
    /\ rinv[q].pc = "s3.put_bucket_tagging"
    /\ \E api \in {"ok", "error"} :
         LET new_tags == SelectSeq(get_tags_for_environment(rinv[q].environment),
                                   LAMBDA t : t.Key \notin TagKeys(rinv[q].current_tags))
         IN /\ rinv' = [rinv EXCEPT ![q] =
                   AfterCall(@, [api |-> "s3.put_bucket_tagging",
                                 Bucket |-> @.event.compliance_data.resource_id,
                                 TagSet |-> new_tags], api, "return")]
            /\ tags' = IF api = "ok" THEN [TagSet |-> new_tags] ELSE tags
    /\ UNCHANGED <<polVars, procs, rcfg, target, ingress, pab>>

\* remediate_required_tags on a bucket: the merge and the write
RemPutBucketTagging(q) ==
    /\ q \in procs
    /\ rinv[q].pc = "s3.put_bucket_tagging"
    /\ \E api \in {"ok", "error"} :
         LET new_tags == merge_bucket_tags(rinv[q].current_tags,
                                           get_tags_for_environment(rinv[q].environment))
         IN /\ rinv' = [rinv EXCEPT ![q] =
                   AfterCall(@, [api |-> "s3.put_bucket_tagging",
                                 Bucket |-> @.event.compliance_data.resource_id,
                                 TagSet |-> new_tags], api, "return")]
            /\ tags' = IF api = "ok" THEN [TagSet |-> new_tags] ELSE tags
    /\ UNCHANGED <<polVars, procs, rcfg, target, ingress, pab>>

\* What ec2.describe_security_groups(GroupIds=[id]) answers for the target,
\* which exists: the group ("ok") or a ClientError.  EC2 answers an id it does
\* not know with the error InvalidGroup.NotFound, so the answer with no group
\* ("empty"), which the code provides for, is not among them.
DescribeResponses == {"ok", "error"}

\* remediate_security_group: the describe and the scan of the rules; the
\* response is the group ("ok"), no group ("empty") or a ClientError
RemDescribeSecurityGroups(q) ==
    /\ q \in procs
    /\ rinv[q].pc = "ec2.describe_security_groups"
    /\ \E api \in DescribeResponses :
         LET cd == rinv[q].event.compliance_data
             found == IF api = "ok"
                      THEN rules_to_revoke(IpPermissions(ingress), target_port(cd.rule_name))
                      ELSE <<>>
         IN rinv' = [rinv EXCEPT ![q] =
              [AfterCall(@, [api |-> "ec2.describe_security_groups", GroupIds |-> <<cd.resource_id>>,
                             response |-> api],
                         IF api = "error" THEN "error" ELSE "ok",
                         IF found = <<>> THEN "return" ELSE "ec2.revoke_security_group_ingress")
               EXCEPT !.to_revoke = found]]
    /\ UNCHANGED <<polVars, procs, rcfg, target, ingress, tags, pab>>

\* remediate_security_group: one turn of the loop over rules_to_revoke
RemRevoke(q) ==
    /\ q \in procs
    /\ rinv[q].pc = "ec2.revoke_security_group_ingress"
    /\ \E api \in {"ok", "error"} :
         LET rule == Head(rinv[q].to_revoke)
             rest == Tail(rinv[q].to_revoke)
         IN /\ rinv' = [rinv EXCEPT ![q] =
                   [AfterCall(@, [api |-> "ec2.revoke_security_group_ingress",
                                  GroupId |-> @.event.compliance_data.resource_id,
                                  IpPermissions |-> <<rule>>], api,
                              IF rest = <<>> THEN "return" ELSE "ec2.revoke_security_group_ingress")
                    EXCEPT !.to_revoke = IF api = "ok" THEN rest ELSE @]]
            /\ ingress' = IF api = "ok" THEN revoke_security_group_ingress(ingress, rule) ELSE ingress
    /\ UNCHANGED <<polVars, procs, rcfg, target, tags, pab>>

----------------------------------------------------------------------------
(* Specifications *)

PolicyIdle ==
    /\ cfg = [EXCEPTIONS_TABLE |-> FALSE, REMEDIATION_LAMBDA |-> FALSE, NOTIFICATION_LAMBDA |-> FALSE]
    /\ now = 1
    /\ exceptions = {}
    /\ history = {}
    /\ inv = [p \in Invocations |-> Idle]

RemediationIdle ==
    /\ rcfg = [NOTIFICATION_LAMBDA |-> FALSE, PROD_ACCOUNT_ID |-> "", ACCOUNT_ENVIRONMENT_MAP |-> AccountMap]
    /\ target = [account |-> DevAccount, id |-> "res-1", type |-> "AWS::SNS::Topic"]
    /\ ingress = {}
    /\ tags = NoTags
    /\ pab = PublicAccessBlock(FALSE)
    /\ rinv = [q \in Invocations |-> RemIdle]

InitStores ==
    /\ cfg \in Configs
    /\ now = 1
    /\ exceptions \in {{}} \cup {{x} : x \in ExceptionItems}
    /\ history = {}
    /\ inv = [p \in Invocations |-> Idle]

\* The policy engine, deliveries processed one after another
Init ==
    /\ InitStores
    /\ procs = {1}
    /\ RemediationIdle

Next ==
    \/ \E p \in Invocations, e \in Events : Receive(p, e)
    \/ \E p \in Invocations : CheckException(p)
    \/ \E p \in Invocations : Persist(p)
    \/ \E p \in Invocations : Route(p)
    \/ Tick

Spec == Init /\ [][Next]_vars

\* The Lambda runtime runs a handler that has started on to its return or its
\* exception
RunsOn ==
    \A p \in Invocations :
        WF_vars(CheckException(p)) /\ WF_vars(Persist(p)) /\ WF_vars(Route(p))

SpecRun == Init /\ [][Next]_vars /\ RunsOn

\* The policy engine, deliveries of the violations processed by concurrently
\* interleaved invocations, every function and table configured, within one
\* second
InitConc ==
    /\ InitStores
    /\ cfg = [EXCEPTIONS_TABLE |-> TRUE, REMEDIATION_LAMBDA |-> TRUE, NOTIFICATION_LAMBDA |-> TRUE]
    /\ \A x \in exceptions : /\ x.status = "approved"
                             /\ "expires_at" \notin DOMAIN x
                             /\ x.sk = ExceptionSk("required-tags")
    /\ procs = Invocations
    /\ RemediationIdle

NextConc ==
    \/ \E p \in Invocations, e \in Violations : Receive(p, e)
    \/ \E p \in Invocations : CheckException(p)
    \/ \E p \in Invocations : Persist(p)
    \/ \E p \in Invocations : Route(p)

SpecConc == InitConc /\ [][NextConc]_vars

\* The policy engine over the whole range of inbound events, processed one
\* after another, with no waiver in the exception store
InitEvents ==
    /\ InitStores
    /\ exceptions = {}
    /\ procs = {1}
    /\ RemediationIdle

NextEvents ==
    \/ \E p \in Invocations, e \in AllEvents : Receive(p, e)
    \/ \E p \in Invocations : CheckException(p)
    \/ \E p \in Invocations : Persist(p)
    \/ \E p \in Invocations : Route(p)

SpecEvents == InitEvents /\ [][NextEvents]_vars

\* The policy engine and its event source: a violation that is to be
\* dispatched and has no granted waiver is delivered, and delivered again
\* whenever the invocation raised.  An invocation that has started runs on, and
\* a history write or an invoke that is tried again and again succeeds in the
\* end.
InitRedeliver ==
    /\ InitStores
    /\ cfg = [EXCEPTIONS_TABLE |-> TRUE, REMEDIATION_LAMBDA |-> TRUE, NOTIFICATION_LAMBDA |-> TRUE]
    /\ \A x \in exceptions : x.status # "approved"
    /\ procs = {1}
    /\ RemediationIdle

NextRedeliver ==
    \/ \E p \in Invocations, e \in Dispatchable : Deliver(p, e)
    \/ \E p \in Invocations : Redeliver(p)
    \/ \E p \in Invocations : CheckException(p)
    \/ \E p \in Invocations : Persist(p)
    \/ \E p \in Invocations : Route(p)

FairRedeliver ==
    \A p \in Invocations :
        /\ WF_vars(Redeliver(p))
        /\ WF_vars(CheckException(p))
        /\ SF_vars(Persist(p) /\ inv'[p].persisted # "raised")
        /\ SF_vars(Route(p) /\ inv'[p].dispatched # "raised")

SpecRedeliver == InitRedeliver /\ [][NextRedeliver]_vars /\ FairRedeliver

\* The remediation engine, requests about one resource processed one after
\* another
InitRem ==
    /\ PolicyIdle
    /\ procs = {1}
    /\ rcfg \in RemConfigs
    /\ target \in Targets
    /\ ingress \in IF target.type = "AWS::EC2::SecurityGroup" THEN SUBSET IngressEntries ELSE {{}}
    /\ tags \in IF target.type = "AWS::S3::Bucket"
               THEN {None} \cup {[TagSet |-> t] : t \in InitialTags \ {<<>>}}
               ELSE {AsMap(t) : t \in InitialTags}
    /\ pab = PublicAccessBlock(FALSE)
    /\ rinv = [q \in Invocations |-> RemIdle]

NextRem ==
    \/ \E q \in Invocations : \E ev \in RemEvents(target) : RemReceive(q, ev)
    \/ \E q \in Invocations : RemNotify(q)
    \/ \E q \in Invocations : RemAssumeRole(q)
    \/ \E q \in Invocations : RemPutPublicAccessBlock(q)
    \/ \E q \in Invocations : RemTagResource(q)
    \/ \E q \in Invocations : RemGetCallerIdentity(q)
    \/ \E q \in Invocations : RemGetBucketTagging(q)
    \/ \E q \in Invocations : RemPutBucketTagging(q)
    \/ \E q \in Invocations : RemDescribeSecurityGroups(q)
    \/ \E q \in Invocations : RemRevoke(q)

SpecRem == InitRem /\ [][NextRem]_vars

\* The accounts of an organisation with one account for each environment,
\* and one more that the map does not name
StagingAccount == "444444444444"
GovernanceAccount == "555555555555"
ToolingAccount == "666666666666"

OrganizationMap ==
    (DevAccount :> "dev") @@ (StagingAccount :> "staging") @@ (ProdAccount :> "prod")
    @@ (GovernanceAccount :> "governance") @@ (ToolingAccount :> "tooling")

OrganizationAccounts == DOMAIN OrganizationMap \cup {OtherAccount}

OrganizationConfigs ==
    [ NOTIFICATION_LAMBDA : BOOLEAN,
      PROD_ACCOUNT_ID : {"", ProdAccount},
      ACCOUNT_ENVIRONMENT_MAP : {OrganizationMap} ]

\* the required-tags request about the target
RequiredTagsEvent(t) ==
    [action |-> "remediate", compliance_data |-> ComplianceData(t, "required-tags")]

\* The remediation engine on required-tags requests about one resource of an
\* account of the organisation
InitEnv ==
    /\ PolicyIdle
    /\ procs = {1}
    /\ rcfg \in OrganizationConfigs
    /\ target \in [account : OrganizationAccounts, id : {"res-1"}, type : ResourceTypes]
    /\ ingress = {}
    /\ tags \in IF target.type = "AWS::S3::Bucket"
               THEN {None} \cup {[TagSet |-> t] : t \in InitialTags \ {<<>>}}
               ELSE {AsMap(t) : t \in InitialTags}
    /\ pab = PublicAccessBlock(FALSE)
    /\ rinv = [q \in Invocations |-> RemIdle]

NextEnv ==
    \/ \E q \in Invocations : RemReceive(q, RequiredTagsEvent(target))
    \/ \E q \in Invocations : RemAssumeRole(q)
    \/ \E q \in Invocations : RemTagResource(q)
    \/ \E q \in Invocations : RemGetCallerIdentity(q)
    \/ \E q \in Invocations : RemGetBucketTagging(q)
    \/ \E q \in Invocations : RemPutBucketTagging(q)

SpecEnv == InitEnv /\ [][NextEnv]_vars

\* The two engines together: the policy engine processes one violation of any
\* rule on the target, the remediation engine is invoked, once or again, with
\* the request the policy engine sent
PipelineTargets ==
    [ account : {DevAccount}, id : {"r1"},
      type : {"AWS::S3::Bucket", "AWS::EC2::SecurityGroup", "AWS::DynamoDB::Table"} ]

PipelineEvents(t) ==
    { [ComplianceChange(r, r, "NON_COMPLIANT") EXCEPT !.detail.resourceType = t.type]
      : r \in TableRules \cup {"custom-rule"} }

\* the requests the policy engine has handed to the Lambda service for the
\* remediation engine
RemediationRequests ==
    { inv[p].sent[1].Payload :
        p \in {x \in Invocations : /\ Len(inv[x].sent) = 1
                                   /\ inv[x].sent[1].FunctionName = "REMEDIATION_LAMBDA"
                                   /\ inv[x].sent[1].response = "ok"} }

InitPipeline ==
    /\ cfg \in {c \in Configs : c.REMEDIATION_LAMBDA}
    /\ now = 1
    /\ exceptions = {}
    /\ history = {}
    /\ inv = [p \in Invocations |-> Idle]
    /\ procs = {1}
    /\ rcfg \in [ NOTIFICATION_LAMBDA : {TRUE}, PROD_ACCOUNT_ID : {"", DevAccount},
                   ACCOUNT_ENVIRONMENT_MAP : {AccountMap} ]
    /\ target \in PipelineTargets
    /\ ingress \in IF target.type = "AWS::EC2::SecurityGroup"
                  THEN {{}, {TcpEntry(22, 22, "IpRanges", "0.0.0.0/0"),
                             TcpEntry(443, 443, "IpRanges", "0.0.0.0/0")}}
                  ELSE {{}}
    /\ tags \in IF target.type = "AWS::S3::Bucket"
               THEN {None, [TagSet |-> <<Tag("Owner", "alice")>>]}
               ELSE {NoTags}
    /\ pab = PublicAccessBlock(FALSE)
    /\ rinv = [q \in Invocations |-> RemIdle]

NextPipeline ==
    \/ \E p \in Invocations, e \in PipelineEvents(target) : Deliver(p, e)
    \/ \E p \in Invocations : CheckException(p)
    \/ \E p \in Invocations : Persist(p)
    \/ \E p \in Invocations : Route(p)
    \/ \E q \in Invocations : \E ev \in RemediationRequests : RemReceive(q, ev)
    \/ \E q \in Invocations : RemNotify(q)
    \/ \E q \in Invocations : RemAssumeRole(q)
    \/ \E q \in Invocations : RemPutPublicAccessBlock(q)
    \/ \E q \in Invocations : RemTagResource(q)
    \/ \E q \in Invocations : RemGetCallerIdentity(q)
    \/ \E q \in Invocations : RemGetBucketTagging(q)
    \/ \E q \in Invocations : RemPutBucketTagging(q)
    \/ \E q \in Invocations : RemDescribeSecurityGroups(q)
    \/ \E q \in Invocations : RemRevoke(q)

SpecPipeline == InitPipeline /\ [][NextPipeline]_vars

\* The remediation engine, required-tags requests about one bucket processed
\* by concurrently interleaved invocations, the bucket written by nobody else
InitBucket ==
    /\ PolicyIdle
    /\ procs = Invocations
    /\ rcfg = [NOTIFICATION_LAMBDA |-> FALSE, PROD_ACCOUNT_ID |-> "",
               ACCOUNT_ENVIRONMENT_MAP |-> AccountMap]
    /\ target \in [account : {DevAccount, OtherAccount}, id : {"res-1"}, type : {"AWS::S3::Bucket"}]
    /\ ingress = {}
    /\ tags \in {None} \cup {[TagSet |-> t] : t \in InitialTags \ {<<>>}}
    /\ pab = PublicAccessBlock(FALSE)
    /\ rinv = [q \in Invocations |-> RemIdle]

NextBucket ==
    \/ \E q \in Invocations : RemReceive(q, RequiredTagsEvent(target))
    \/ \E q \in Invocations : RemAssumeRole(q)
    \/ \E q \in Invocations : RemGetBucketTagging(q)
    \/ \E q \in Invocations : RemPutBucketTagging(q)

SpecBucket == InitBucket /\ [][NextBucket]_vars

----------------------------------------------------------------------------
(* Properties of the policy engine *)

Finished(p) == inv[p].pc \in {"returned", "raised"}

\* the invocation reached classification: a violation with no granted exception
Classified(p) == "severity" \in DOMAIN inv[p].compliance_data

\* the history records under the key of the invocation's event
RecordsOf(p) ==
    ItemsAt(history, HistoryPk(inv[p].compliance_data), HistorySk(inv[p].compliance_data))

NoDispatch(p) == inv[p].calls.remediation = 0 /\ inv[p].calls.notification = 0

\* C1 as stated: every invocation for a NON_COMPLIANT event with no granted
\* exception that gets as far as routing ends with exactly one remediation
\* invoke and no notification invoke when LOW, exactly one notification invoke
\* and no remediation invoke when MEDIUM, and no invoke but a written record
\* when HIGH.
C1_DispatchBySeverity ==
    \A p \in Invocations :
        Finished(p) /\ Classified(p) /\ inv[p].persisted \in {"written", "collided"} =>
            LET severity == inv[p].compliance_data.severity
                calls == inv[p].calls
            IN /\ severity = "LOW" => calls.remediation = 1 /\ calls.notification = 0
               /\ severity = "MEDIUM" => calls.notification = 1 /\ calls.remediation = 0
               /\ severity = "HIGH" => NoDispatch(p) /\ RecordsOf(p) # {}

\* C1 amended: once the history write of such an invocation has succeeded or
\* collided, a record is held under the event's key and the finished invocation
\* has made: when LOW, one remediation invoke if REMEDIATION_LAMBDA is
\* configured (else none) and no notification invoke; when MEDIUM, one
\* notification invoke if NOTIFICATION_LAMBDA is configured (else none) and no
\* remediation invoke; when HIGH, no invoke.  An invocation whose history write
\* raised has made no invoke.
C1_DispatchBySeverityWhenConfigured ==
    \A p \in Invocations :
        Finished(p) /\ Classified(p) =>
            LET severity == inv[p].compliance_data.severity
                calls == inv[p].calls
            IN IF inv[p].persisted = "raised" THEN NoDispatch(p)
               ELSE /\ RecordsOf(p) # {}
                    /\ severity = "LOW" =>
                         /\ calls.remediation = (IF cfg.REMEDIATION_LAMBDA THEN 1 ELSE 0)
                         /\ calls.notification = 0
                    /\ severity = "MEDIUM" =>
                         /\ calls.notification = (IF cfg.NOTIFICATION_LAMBDA THEN 1 ELSE 0)
                         /\ calls.remediation = 0
                    /\ severity = "HIGH" => NoDispatch(p)
                    /\ severity \in {"LOW", "MEDIUM", "HIGH"}

C1_Witness ==
    \E p \in Invocations :
        /\ inv[p].pc = "returned" /\ Classified(p)
        /\ inv[p].compliance_data.severity = "LOW"
        /\ inv[p].calls.remediation = 1 /\ inv[p].calls.notification = 0
        /\ inv[p].sent[1].Payload.action = "remediate"

\* C2: however often an event is delivered, one after another or to
\* interleaved invocations, the history store holds at most one record with
\* the event's account, resource and timestamp.
C2_OneRecordPerEventKey ==
    \A e \in Violations :
        Cardinality({i \in history : /\ i.account_id = e.account
                                     /\ i.resource_id = e.detail.resourceId
                                     /\ i.sk[2] = e.time}) <= 1

C2_Witness ==
    \E p \in Invocations, q \in Invocations :
        /\ p # q
        /\ inv[p].event = inv[q].event
        /\ inv[p].persisted = "written"
        /\ inv[q].persisted = "collided"
        /\ Cardinality(RecordsOf(p)) = 1

\* no record of the history store is removed or changed
AppendOnly == \A i \in history : i \in history'

\* C3 as stated: the history store is append-only, and an invocation whose
\* write collided with an existing key returns status 200 instead of raising.
C3_AppendOnlyCollisionReturns200 ==
    /\ [][AppendOnly]_vars
    /\ [](\A p \in Invocations :
            Finished(p) /\ inv[p].persisted = "collided" =>
                inv[p].pc = "returned" /\ inv[p].result.statusCode = 200)

\* C3 amended: the history store is append-only, and a write that collides
\* with an existing key is swallowed: the invocation goes on to routing or to
\* its return, returns status 200 when it returns, and raises only if the
\* dispatch that follows fails.
C3_AppendOnlyCollisionSwallowed ==
    /\ [][AppendOnly]_vars
    /\ [](\A p \in Invocations :
            inv[p].persisted = "collided" =>
                /\ inv[p].pc \in {"route", "returned", "raised"}
                /\ inv[p].pc = "returned" => inv[p].result.statusCode = 200
                /\ inv[p].pc = "raised" => inv[p].dispatched = "raised")

C3_Witness ==
    \E p \in Invocations :
        /\ inv[p].pc = "returned"
        /\ inv[p].persisted = "collided"
        /\ inv[p].result.statusCode = 200
        /\ \E i \in RecordsOf(p) : i.event_id # inv[p].compliance_data.event_id

\* C9 as stated: an invocation that returns for an event with a granted
\* exception leaves a record with exception_applied = true under the event's
\* key and has made no remediation and no notification invoke.
C9_ExceptedRecordFlagged ==
    \A p \in Invocations :
        inv[p].pc = "returned" /\ Truthy(inv[p].exception) =>
            /\ \E i \in RecordsOf(p) : Get(i, "exception_applied", FALSE)
            /\ NoDispatch(p)

\* C9 amended: an invocation that returns for an event with a granted
\* exception has made no remediation and no notification invoke, and a record
\* is held under the event's key; that record is the event's own, with
\* exception_applied = true, whenever the key held no record before the write.
C9_ExceptedRecordFlaggedWhenWritten ==
    \A p \in Invocations :
        inv[p].pc = "returned" /\ Truthy(inv[p].exception) =>
            /\ RecordsOf(p) # {}
            /\ inv[p].persisted \in {"written", "collided"}
            /\ inv[p].persisted = "written" =>
                 \A i \in RecordsOf(p) :
                     /\ Get(i, "exception_applied", FALSE)
                     /\ i.event_id = inv[p].compliance_data.event_id
            /\ NoDispatch(p)

C9_Witness ==
    \E p \in Invocations :
        /\ inv[p].pc = "returned"
        /\ Truthy(inv[p].exception)
        /\ inv[p].persisted = "written"
        /\ \E i \in RecordsOf(p) : Get(i, "exception_applied", FALSE)

\* the items of the exception store for the triple of the invocation's event
WaiversOf(p) ==
    ItemsAt(exceptions,
            ExceptionPk(inv[p].compliance_data.account_id, inv[p].compliance_data.resource_id),
            ExceptionSk(inv[p].compliance_data.rule_name))

\* the step of invocation p in which check_exception looks the waiver up
LooksUp(p) == inv[p].pc = "check_exception" /\ inv'[p].pc = "persist"

\* C10 as stated: a lookup that succeeds returns the record if and only if one
\* exists for the triple, its status is "approved" and its expires_at is absent
\* or strictly greater than the current time; otherwise None.
C10_GrantedIffApprovedAndLater ==
    [][\A p \in Invocations :
        LooksUp(p) /\ inv'[p].lookup = "ok" =>
            IF \E i \in WaiversOf(p) :
                  i.status = "approved" /\ ("expires_at" \notin DOMAIN i \/ i.expires_at > now)
            THEN inv'[p].exception \in WaiversOf(p)
            ELSE inv'[p].exception = None]_vars

\* C10 amended: check_exception returns the record if and only if the lookup
\* succeeds, a record exists for the triple, its status is "approved" and its
\* expires_at is absent or not less than the current time; in every other case
\* (no record, pending, rejected, expires_at < now, no table configured, a
\* failed lookup) it returns None.
C10_GrantedIffApprovedAndNotEarlier ==
    [][\A p \in Invocations :
        LooksUp(p) =>
            IF /\ inv'[p].lookup = "ok"
               /\ \E i \in WaiversOf(p) :
                    i.status = "approved" /\ ("expires_at" \notin DOMAIN i \/ i.expires_at >= now)
            THEN inv'[p].exception \in WaiversOf(p)
            ELSE inv'[p].exception = None]_vars

C10_Witness ==
    \E p \in Invocations :
        /\ inv[p].pc = "persist"
        /\ Truthy(inv[p].exception)
        /\ "expires_at" \in DOMAIN inv[p].exception
        /\ inv[p].exception.expires_at = now

\* what the lookup step of invocation p leaves when the exception store holds
\* no record for the triple of its event
NoWaiverLookup(p, lookup) ==
    [inv[p] EXCEPT
        !.pc = "persist",
        !.lookup = lookup,
        !.exception = check_exception(lookup, get_item({}, "none", "none"), now),
        !.calls.get_item = @ + (IF cfg.EXCEPTIONS_TABLE THEN 1 ELSE 0),
        !.compliance_data = [severity |-> classify_severity(@.rule_name)] @@ @]

\* a waiver that is rejected, or has expired
Lapsed(i) ==
    \/ i.status = "rejected"
    \/ "expires_at" \in DOMAIN i /\ i.expires_at < now

\* the finished invocation recorded and dispatched its event as a violation
\* with no waiver is: its record, if it wrote one, has the classified severity
\* and no exception_applied, and what it sent is what the router sends
AsWithoutWaiver(p) ==
    /\ Classified(p)
    /\ inv[p].compliance_data.severity = classify_severity(inv[p].compliance_data.rule_name)
    /\ inv[p].persisted = "written" =>
         \A i \in RecordsOf(p) :
             /\ "exception_applied" \notin DOMAIN i
             /\ i.severity = inv[p].compliance_data.severity
             /\ i.event_id = inv[p].compliance_data.event_id
    /\ inv[p].persisted \in {"written", "collided"} =>
         /\ RecordsOf(p) # {}
         /\ \E api \in {"ok", "error"} :
              /\ inv[p].sent = route(cfg, inv[p].compliance_data, api).sent
              /\ inv[p].dispatched = route(cfg, inv[p].compliance_data, api).outcome
    /\ inv[p].persisted = "raised" => inv[p].sent = <<>>

C12_FailedLookupAsNoWaiver ==
    /\ [][\A p \in Invocations :
            LooksUp(p) /\ inv'[p].lookup = "error" => inv'[p] = NoWaiverLookup(p, "error")]_vars
    /\ [](\A p \in Invocations :
            inv[p].lookup = "error" =>
                /\ inv[p].exception = None
                /\ inv[p].pc \in {"persist", "route", "returned", "raised"}
                /\ inv[p].pc = "raised" =>
                     inv[p].persisted = "raised" \/ inv[p].dispatched = "raised"
                /\ inv[p].pc = "returned" =>
                     inv[p].result.body.message = "Processed successfully"
                /\ Finished(p) => AsWithoutWaiver(p))

C12_Witness ==
    \E p \in Invocations :
        /\ inv[p].pc = "returned"
        /\ inv[p].lookup = "error"
        /\ \E i \in WaiversOf(p) : i.status = "approved" /\ "expires_at" \notin DOMAIN i
        /\ inv[p].persisted = "written"
        /\ inv[p].dispatched = "invoked"
        /\ inv[p].result.statusCode = 200

\* C13: classify_severity is a function of the rule name alone: a violation
\* of one of the ten rules of the severity table is given the tier of the
\* table, a violation of any other rule MEDIUM, never LOW and never HIGH.
C13_ClassifiedByTable ==
    /\ Cardinality(DOMAIN RULE_SEVERITY) = 10
    /\ \A p \in Invocations :
         Classified(p) =>
             LET rule == inv[p].compliance_data.rule_name
                 severity == inv[p].compliance_data.severity
             IN /\ rule \in DOMAIN RULE_SEVERITY => severity = RULE_SEVERITY[rule]
                /\ rule \notin DOMAIN RULE_SEVERITY => severity = "MEDIUM"
                /\ severity \in {"LOW", "MEDIUM", "HIGH"}

C13_Witness ==
    \E p \in Invocations :
        /\ inv[p].pc = "returned"
        /\ Classified(p)
        /\ inv[p].compliance_data.rule_name = "custom-rule"
        /\ inv[p].compliance_data.severity = "MEDIUM"
        /\ inv[p].result.body.action = "notify"

\* C14: a violation of restricted-ssh is classified MEDIUM, one of
\* required-tags LOW, one of root-account-mfa-enabled HIGH and one of a rule
\* the table lacks MEDIUM.
C14_RestrictedSshIsMedium ==
    \A p \in Invocations :
        Classified(p) =>
            LET rule == inv[p].compliance_data.rule_name
                severity == inv[p].compliance_data.severity
            IN /\ rule = "restricted-ssh" => severity = "MEDIUM"
               /\ rule = "required-tags" => severity = "LOW"
               /\ rule = "root-account-mfa-enabled" => severity = "HIGH"
               /\ rule = "custom-rule" => severity = "MEDIUM"

\* what an event says about itself
IsComplianceChange(e) ==
    /\ "detail" \in DOMAIN e
    /\ "messageType" \in DOMAIN e.detail
    /\ e.detail.messageType = "ComplianceChangeNotification"

ComplianceTypeOf(e) ==
    Get(Get(Get(e, "detail", <<>>), "newEvaluationResult", <<>>), "complianceType", "")

\* invocation p takes a step
Steps(p) == inv'[p] # inv[p]

\* the step leaves both tables as they are, and the invocation after it has
\* returned status 200 with the given body, having made no call
Skipped(p, body) ==
    /\ inv'[p].pc = "returned"
    /\ inv'[p].result = [statusCode |-> 200, body |-> body]
    /\ inv'[p].calls = NoCalls
    /\ inv'[p].sent = <<>>
    /\ history' = history
    /\ exceptions' = exceptions

\* C15: an invocation for a compliance change event whose compliance type is
\* not NON_COMPLIANT returns a skipped result with status 200, leaves the
\* history store unchanged, and makes no exception lookup and no remediation
\* or notification invoke.
C15_NotViolationSkipped ==
    [][\A p \in Invocations :
        /\ Steps(p)
        /\ IsComplianceChange(inv'[p].event)
        /\ ComplianceTypeOf(inv'[p].event) # "NON_COMPLIANT"
        => Skipped(p, "Skipped - resource is compliant")]_vars

C15_Witness ==
    \E p \in Invocations :
        /\ inv[p].pc = "returned"
        /\ IsComplianceChange(inv[p].event)
        /\ ComplianceTypeOf(inv[p].event) = "NOT_APPLICABLE"
        /\ inv[p].result.statusCode = 200
        /\ inv[p].calls = NoCalls
        /\ history # {}

\* C16: an invocation for an event whose detail.messageType is missing or is
\* not "ComplianceChangeNotification" does not raise: it returns a skipped
\* result with status 200, writes no history record and makes no dispatch.
C16_OtherMessageSkipped ==
    [][\A p \in Invocations :
        /\ Steps(p)
        /\ inv'[p].event # None
        /\ ~IsComplianceChange(inv'[p].event)
        => Skipped(p, "Skipped - not a compliance event")]_vars

C16_Witness ==
    \E p \in Invocations :
        /\ inv[p].pc = "returned"
        /\ "detail" \in DOMAIN inv[p].event
        /\ "messageType" \notin DOMAIN inv[p].event.detail
        /\ inv[p].result = [statusCode |-> 200, body |-> "Skipped - not a compliance event"]
        /\ inv[p].calls = NoCalls
        /\ history # {}

\* the compliance change event lacks the account, the resource id or the rule name
LacksIdentity(e) ==
    /\ IsComplianceChange(e)
    /\ \/ "account" \notin DOMAIN e
       \/ "resourceId" \notin DOMAIN e.detail
       \/ "configRuleName" \notin DOMAIN e.detail

\* C17: a compliance change event that lacks the account, the resource id or
\* the rule name is rejected as invalid: the invocation makes no history write
\* and no dispatch for it, and the history store holds no record without an
\* account, a resource or a rule.
C17_AnonymousEventRejected ==
    /\ \A p \in Invocations :
         LacksIdentity(inv[p].event) =>
             /\ inv[p].calls.put_item = 0
             /\ NoDispatch(p)
    /\ \A i \in history : i.account_id # "" /\ i.resource_id # "" /\ i.rule_name # ""

\* an invoke the invocation made failed
InvokeFailed(p) == \E i \in DOMAIN inv[p].sent : inv[p].sent[i].response = "error"

\* C18: an invocation whose remediation or notification invoke failed ends
\* with an error, and has no result: it never returns "Processed successfully".
C18_DispatchFailureRaises ==
    \A p \in Invocations :
        InvokeFailed(p) => inv[p].pc = "raised" /\ inv[p].result = None

C18_Witness ==
    \E p \in Invocations :
        /\ InvokeFailed(p)
        /\ inv[p].pc = "raised"
        /\ inv[p].persisted = "written"
        /\ inv[p].compliance_data.severity = "MEDIUM"

\* the invocation has returned after a dispatch that succeeded, and the
\* history store holds exactly one record under the key of its event
Dispatched(p) ==
    /\ inv[p].pc = "returned"
    /\ inv[p].dispatched = "invoked"
    /\ Cardinality(RecordsOf(p)) = 1

\* C19: a delivery that finds the record of its event already written takes
\* that as success and goes on to dispatch; the history store never holds more
\* than one record for the event; and every LOW or MEDIUM violation with no
\* granted waiver that is delivered, and delivered again whenever the
\* invocation raised, is in the end dispatched, with exactly one record held.
C19_RedeliveredUntilDispatched ==
    /\ [](\A p \in Invocations :
            inv[p].persisted = "collided" =>
                /\ inv[p].pc \in {"route", "returned", "raised"}
                /\ inv[p].pc = "raised" => inv[p].dispatched = "raised")
    /\ [](\A p \in Invocations : inv[p].pc # "idle" => Cardinality(RecordsOf(p)) <= 1)
    /\ \A p \in Invocations : (inv[p].pc = "check_exception") ~> Dispatched(p)

C19_Witness ==
    \E p \in Invocations :
        /\ Dispatched(p)
        /\ inv[p].persisted = "collided"
        /\ \A i \in RecordsOf(p) : i.event_id = inv[p].compliance_data.event_id

\* the history records that carry the event id of the invocation's event
RecordsWithEventId(p) == {i \in history : i.event_id = inv[p].compliance_data.event_id}

\* C24: every NON_COMPLIANT event that an invocation has processed to its
\* return has exactly one history record carrying its event_id.
C24_OneRecordPerEventId ==
    \A p \in Invocations :
        inv[p].pc = "returned" /\ inv[p].persisted \in {"written", "collided"} =>
            Cardinality(RecordsWithEventId(p)) = 1

Tiers == {"LOW", "MEDIUM", "HIGH"}

\* C25 as stated: a history record written on the classified path carries the
\* tier LOW, MEDIUM or HIGH, and a record written on the excepted path
\* (exception_applied = true) carries no severity.
C25_SeverityIffClassified ==
    \A i \in history :
        IF Get(i, "exception_applied", FALSE)
        THEN "severity" \notin DOMAIN i
        ELSE "severity" \in DOMAIN i /\ i.severity \in Tiers

\* C25 amended: a history record carries a tier if and only if it passed
\* classification: a record written on the classified path carries the tier
\* classified for its rule, and a record written on the excepted path
\* (exception_applied = true) carries the placeholder "UNKNOWN", never a tier.
C25_TierIffClassified ==
    \A i \in history :
        IF Get(i, "exception_applied", FALSE)
        THEN i.severity = "UNKNOWN"
        ELSE i.severity \in Tiers /\ i.severity = classify_severity(i.rule_name)

C25_Witness ==
    \E i \in history, j \in history :
        /\ Get(i, "exception_applied", FALSE) /\ i.severity = "UNKNOWN"
        /\ ~Get(j, "exception_applied", FALSE) /\ j.severity \in Tiers

\* compliance_data as an invocation that runs alone has it after the exception
\* lookup with the same response
AloneData(p) ==
    LET data == parse_compliance_event(inv[p].event, now)
        item == get_item(exceptions, ExceptionPk(data.account_id, data.resource_id),
                         ExceptionSk(data.rule_name))
        exception == check_exception(inv[p].lookup, item, now)
    IN IF Truthy(exception)
       THEN [ exception_applied |-> TRUE,
              exception_reason |-> Get(exception, "reason", "") ] @@ data
       ELSE [ severity |-> classify_severity(data.rule_name) ] @@ data

\* the invocations run at the same time on events with different history keys
ConcurrentOnDifferentKeys(p, q) ==
    /\ p # q
    /\ inv[p].pc # "idle" /\ inv[q].pc # "idle"
    /\ <<HistoryPk(inv[p].compliance_data), HistorySk(inv[p].compliance_data)>>
         # <<HistoryPk(inv[q].compliance_data), HistorySk(inv[q].compliance_data)>>

\* C31: when two invocations run concurrently on events with different
\* history keys, then under every interleaving each one has the locals, writes
\* the history record and makes the dispatch that it has, writes and makes
\* when it runs alone: the record of its own event under its own key, the
\* invoke that the routing table gives for its own event.
C31_ConcurrentAsAlone ==
    \A p \in Invocations, q \in Invocations :
        ConcurrentOnDifferentKeys(p, q) =>
            /\ inv[p].lookup # "none" => inv[p].compliance_data = AloneData(p)
            /\ inv[p].persisted = "written" =>
                 RecordsOf(p) = {HistoryItem(AloneData(p), now)}
            /\ inv[p].dispatched # "none" =>
                 \E api \in {"ok", "error"} :
                     /\ inv[p].sent = route(cfg, AloneData(p), api).sent
                     /\ inv[p].dispatched = route(cfg, AloneData(p), api).outcome

C31_Witness ==
    \E p \in Invocations, q \in Invocations :
        /\ ConcurrentOnDifferentKeys(p, q)
        /\ inv[p].pc = "route" /\ inv[q].pc = "route"
        /\ inv[p].persisted = "written" /\ inv[q].persisted = "written"
        /\ Cardinality(history) = 2

Running(p) == inv[p].pc \in {"check_exception", "persist", "route"}

\* the invocation has ended with a result or with a propagated error
Terminated(p) ==
    \/ inv[p].pc = "returned" /\ inv[p].result # None
    \/ inv[p].pc = "raised" /\ inv[p].result = None

\* C32: a policy-engine invocation makes at most one exception lookup, at
\* most one history write attempt and at most one dispatch attempt, and an
\* invocation that is running ends with a result or with a propagated error.
C32_NoRetryLoop ==
    /\ [](\A p \in Invocations :
            /\ inv[p].calls.get_item <= 1
            /\ inv[p].calls.put_item <= 1
            /\ inv[p].calls.remediation + inv[p].calls.notification <= 1
            /\ Len(inv[p].sent) <= 1
            /\ Finished(p) => Terminated(p))
    /\ \A p \in Invocations : Running(p) ~> Terminated(p)

C32_Witness ==
    \E p \in Invocations :
        /\ inv[p].pc = "raised"
        /\ inv[p].calls.get_item = 1
        /\ inv[p].calls.put_item = 1
        /\ inv[p].calls.remediation = 1
        /\ inv[p].sent[1].response = "error"

\* C34: in a policy-engine invocation the exception lookup comes before the
\* classification, the history write after both and before the routing: an
\* invocation that has a severity has consulted the exception store, one that
\* dispatched (or reached the routing) has made the history write, which
\* succeeded or collided, and one whose history write failed with another error
\* has raised and has made no dispatch.
C34_LookupWriteRouteInOrder ==
    /\ [](\A p \in Invocations :
            /\ inv[p].compliance_data # None /\ Classified(p) => inv[p].lookup # "none"
            /\ inv[p].pc = "persist" => inv[p].lookup # "none" /\ inv[p].persisted = "none"
            /\ inv[p].pc = "route" \/ inv[p].dispatched # "none" \/ inv[p].sent # <<>> =>
                 /\ inv[p].calls.put_item = 1
                 /\ inv[p].persisted \in {"written", "collided"}
                 /\ RecordsOf(p) # {}
            /\ inv[p].persisted = "raised" =>
                 /\ inv[p].pc = "raised"
                 /\ inv[p].dispatched = "none"
                 /\ inv[p].sent = <<>>
                 /\ NoDispatch(p))
    /\ [][\A p \in Invocations :
            inv'[p] # inv[p] =>
                /\ inv[p].pc = "check_exception" => inv'[p].pc = "persist"
                /\ inv[p].pc = "persist" => inv'[p].pc \in {"route", "returned", "raised"}
                /\ inv[p].pc = "route" => inv'[p].pc \in {"returned", "raised"}
                /\ inv'[p].pc = "route" => inv[p].pc = "persist"]_vars

C34_Witness ==
    \E p \in Invocations :
        /\ inv[p].pc = "raised"
        /\ inv[p].persisted = "raised"
        /\ Classified(p)
        /\ inv[p].compliance_data.severity = "LOW"
        /\ cfg.REMEDIATION_LAMBDA
        /\ inv[p].sent = <<>>

----------------------------------------------------------------------------
(* Properties of the remediation engine *)

\* the invocation holds a well-formed request (it was not answered 400)
Accepted(q) ==
    /\ rinv[q].pc # "idle"
    /\ ~(rinv[q].pc = "returned" /\ rinv[q].result.statusCode = 400)

RuleOf(q) == Field(Get(rinv[q].event, "compliance_data", None), "rule_name")
AccountOf(q) == Field(Get(rinv[q].event, "compliance_data", None), "account_id")

\* the account is production: it is the configured production account id, or
\* the account-environment map gives it "prod"
Production(account_id) ==
    \/ rcfg.PROD_ACCOUNT_ID # "" /\ account_id = rcfg.PROD_ACCOUNT_ID
    \/ /\ account_id \in DOMAIN rcfg.ACCOUNT_ENVIRONMENT_MAP
       /\ rcfg.ACCOUNT_ENVIRONMENT_MAP[account_id] = "prod"

\* the production safety check vetoes the invocation's remediation
Vetoed(q) ==
    Accepted(q) /\ RuleOf(q) \in {"restricted-ssh", "restricted-rdp"} /\ Production(AccountOf(q))

Made(q, apis) == {i \in DOMAIN rinv[q].calls : rinv[q].calls[i].api \in apis}

\* C4: an invocation for restricted-ssh or restricted-rdp in a production
\* account never makes a security-group describe or revoke call.
C4_NoIngressCallInProduction ==
    \A q \in Invocations :
        Vetoed(q) =>
            Made(q, {"ec2.describe_security_groups", "ec2.revoke_security_group_ingress"}) = {}

C4_Witness ==
    \E q \in Invocations :
        /\ rinv[q].pc = "returned"
        /\ Vetoed(q)
        /\ AccountOf(q) = ProdAccount
        /\ target.type = "AWS::EC2::SecurityGroup"
        /\ TcpEntry(22, 22, "IpRanges", "0.0.0.0/0") \in ingress

\* the one invoke of the vetoed branch: a notify payload of severity HIGH with
\* the annotation that explains the block
EscalatedNotification(q) ==
    /\ Len(rinv[q].sent) = 1
    /\ rinv[q].sent[1].FunctionName = "NOTIFICATION_LAMBDA"
    /\ rinv[q].sent[1].Payload.action = "notify"
    /\ rinv[q].sent[1].Payload.compliance_data.severity = "HIGH"
    /\ rinv[q].sent[1].Payload.compliance_data.annotation[1] =
           "Production safety: SG remediation blocked"
    /\ rinv[q].sent[1].Payload.compliance_data.rule_name = RuleOf(q)
    /\ rinv[q].sent[1].Payload.compliance_data.account_id = AccountOf(q)

\* C5 as stated: every vetoed invocation, once finished, has sent the
\* escalated notification and returned status 200.
C5_VetoNotifiesAndReturns200 ==
    \A q \in Invocations :
        Vetoed(q) /\ rinv[q].pc \in {"returned", "raised"} =>
            /\ EscalatedNotification(q)
            /\ rinv[q].pc = "returned" /\ rinv[q].result.statusCode = 200

\* C5 amended: every vetoed invocation, once finished, has returned status
\* 200 and, when NOTIFICATION_LAMBDA is configured, has sent the escalated
\* notification (when it is not configured it has sent nothing).
C5_VetoNotifiesWhenConfiguredAndReturns200 ==
    \A q \in Invocations :
        Vetoed(q) /\ rinv[q].pc \in {"returned", "raised"} =>
            /\ IF rcfg.NOTIFICATION_LAMBDA THEN EscalatedNotification(q) ELSE rinv[q].sent = <<>>
            /\ rinv[q].pc = "returned" /\ rinv[q].result.statusCode = 200

C5_Witness ==
    \E q \in Invocations :
        /\ rinv[q].pc = "returned"
        /\ Vetoed(q)
        /\ EscalatedNotification(q)
        /\ rinv[q].result.statusCode = 200

\* the port the rule is about
PortOf(rule_name) == IF rule_name = "restricted-ssh" THEN 22 ELSE 3389

OpenSource(e) == e.cidr \in {"0.0.0.0/0", "::/0"}

\* the entry's port range covers the port
Covers(e, port) ==
    "FromPort" \in DOMAIN e /\ e.FromPort <= port /\ port <= e.ToPort

\* C6: remediate_security_group removes only ingress entries whose port range
\* covers the rule's port and whose source is 0.0.0.0/0 or ::/0; every other
\* entry stays, and no entry is added.
C6_RevokesOnlyOpenTargetPort ==
    [][ /\ ingress' \subseteq ingress
        /\ \A e \in ingress \ ingress' :
             \E q \in Invocations :
                 /\ rinv[q].pc = "ec2.revoke_security_group_ingress"
                 /\ Covers(e, PortOf(RuleOf(q)))
                 /\ OpenSource(e) ]_vars

C6_Witness ==
    \E q \in Invocations :
        /\ rinv[q].pc = "returned"
        /\ RuleOf(q) = "restricted-ssh"
        /\ Made(q, {"ec2.revoke_security_group_ingress"}) # {}
        /\ TcpEntry(22, 22, "IpRanges", "0.0.0.0/0") \notin ingress
        /\ TcpEntry(22, 22, "IpRanges", "10.0.0.0/8") \in ingress
        /\ TcpEntry(443, 443, "IpRanges", "0.0.0.0/0") \in ingress
        /\ TcpEntry(3389, 3389, "IpRanges", "0.0.0.0/0") \in ingress

\* the entry allows traffic to the port: its port range covers it, or it is a
\* rule for all protocols, which has no port range
Allows(e, port) == e.IpProtocol = "-1" \/ Covers(e, port)

\* remediate_security_group read the group and returned without error
RemediatedGroup(q) ==
    /\ rinv[q].pc = "returned"
    /\ rinv[q].result.statusCode = 200
    /\ \E i \in DOMAIN rinv[q].calls :
         /\ rinv[q].calls[i].api = "ec2.describe_security_groups"
         /\ rinv[q].calls[i].response = "ok"

\* C7: after remediate_security_group has returned without error, no ingress
\* entry of the group allows the rule's port from 0.0.0.0/0 or ::/0.
C7_NoOpenTargetPortLeft ==
    \A q \in Invocations :
        RemediatedGroup(q) =>
            ~ \E e \in ingress : Allows(e, PortOf(RuleOf(q))) /\ OpenSource(e)

SupportedTypes ==
    { "AWS::EC2::Instance", "AWS::S3::Bucket", "AWS::DynamoDB::Table",
      "AWS::Lambda::Function", "AWS::RDS::DBInstance", "AWS::EC2::SecurityGroup" }

\* remediate_required_tags returned without error on a supported type
RemediatedTags(q) ==
    /\ rinv[q].pc = "returned"
    /\ rinv[q].result.statusCode = 200
    /\ RuleOf(q) = "required-tags"
    /\ target.type \in SupportedTypes

\* C8: after remediate_required_tags on a supported resource type, every tag
\* key the resource had keeps its value, and every default tag key it lacked
\* is present with the default value of the environment.
C8_TagsMergedWithoutOverwrite ==
    \A q \in Invocations :
        RemediatedTags(q) =>
            LET before == rinv[q].tags_before
                after == TagMap(target.type, tags)
                defaults == get_tags_for_environment(rinv[q].environment)
            IN /\ \A k \in DOMAIN before : k \in DOMAIN after /\ after[k] = before[k]
               /\ \A k \in TagKeys(defaults) \ DOMAIN before :
                    k \in DOMAIN after /\ after[k] = TagValue(defaults, k)

\* the credential exchange of the invocation failed
AssumeRoleFailed(q) ==
    \E i \in DOMAIN rinv[q].calls :
        /\ rinv[q].calls[i].api = "sts.assume_role"
        /\ rinv[q].calls[i].response = "error"

\* C20: a remediation invocation whose assume_role failed ends with the error
\* propagated and no result, has made no other call, and has left the target
\* resource as it found it.
C20_NoCallWithoutCredentials ==
    /\ [](\A q \in Invocations :
            AssumeRoleFailed(q) =>
                /\ rinv[q].pc = "raised"
                /\ rinv[q].result = None
                /\ Len(rinv[q].calls) = 1
                /\ rinv[q].sent = <<>>
                /\ TagMap(target.type, tags) = rinv[q].tags_before)
    /\ [][\A q \in Invocations :
            rinv[q].pc = "sts.assume_role" /\ rinv'[q] # rinv[q] =>
                <<target, ingress, tags, pab>>' = <<target, ingress, tags, pab>>]_vars

C20_Witness ==
    \E q \in Invocations :
        /\ AssumeRoleFailed(q)
        /\ rinv[q].pc = "raised"
        /\ RuleOf(q) = "restricted-ssh"
        /\ TcpEntry(22, 22, "IpRanges", "0.0.0.0/0") \in ingress

\* the calls that change a resource
CorrectiveApis ==
    { "s3.put_public_access_block", "s3.put_bucket_tagging",
      "ec2.revoke_security_group_ingress", "ec2.create_tags",
      "dynamodb.tag_resource", "lambda.tag_resource", "rds.add_tags_to_resource" }

\* C21: a remediation invocation one of whose corrective calls failed with a
\* client error ends with the error propagated, and has no success result.
C21_CorrectiveErrorRaises ==
    \A q \in Invocations :
        (\E i \in DOMAIN rinv[q].calls :
            /\ rinv[q].calls[i].api \in CorrectiveApis
            /\ rinv[q].calls[i].response = "error")
        => rinv[q].pc = "raised" /\ rinv[q].result = None

C21_Witness ==
    \E q \in Invocations :
        /\ rinv[q].pc = "raised"
        /\ Len(rinv[q].calls) = 3
        /\ rinv[q].calls[2].api = "s3.get_bucket_tagging"
        /\ rinv[q].calls[2].response = "ok"
        /\ rinv[q].calls[3].api = "s3.put_bucket_tagging"
        /\ rinv[q].calls[3].response = "error"

\* the invocation returned the success answer of a remediation action
Remediated(q) ==
    /\ rinv[q].pc = "returned"
    /\ rinv[q].result.statusCode = 200
    /\ RuleOf(q) \in S3Rules \cup {"required-tags", "restricted-ssh", "restricted-rdp"}
    /\ rinv[q].result = Success(rinv[q])

\* C22: block-public-access, tag-merge and ingress-revocation are idempotent:
\* a remediation of a violation that follows a remediation of the same
\* violation leaves the target as the first left it.
C22_RemediationIdempotent ==
    \A q \in Invocations :
        Remediated(q) /\ rinv[q].attempt = "repeat" =>
            Resource(ingress, tags, pab) = rinv[q].origin

C22_Witness ==
    \E q \in Invocations :
        /\ Remediated(q) /\ rinv[q].attempt = "repeat"
        /\ RuleOf(q) = "required-tags"
        /\ target.type = "AWS::S3::Bucket"
        /\ Made(q, {"s3.put_bucket_tagging"}) # {}
        /\ tags # None
        /\ Len(tags.TagSet) = 6
        /\ Resource(ingress, tags, pab) = rinv[q].origin

\* the tags one run of the tag merge leaves on a resource of the type
MergedTags(type, before, defaults) ==
    IF type = "AWS::S3::Bucket"
    THEN [k \in DOMAIN before \cup TagKeys(defaults) |->
             IF k \in DOMAIN before THEN before[k] ELSE TagValue(defaults, k)]
    ELSE IF type \in DOMAIN TagApi
    THEN [k \in DOMAIN before \cup TagKeys(defaults) |->
             IF k \in TagKeys(defaults) THEN TagValue(defaults, k) ELSE before[k]]
    ELSE before

\* the target is as one run of the invocation's action leaves a resource that
\* was as origin is: the public access block set, or the defaults merged into
\* the tags with no key twice, or the ingress entries that the scan finds
\* (port range over the rule's port, open source) removed and no other
AsAfterOneRun(q) ==
    LET o == rinv[q].origin
        rule == RuleOf(q)
    IN  /\ pab = IF rule \in S3Rules THEN PublicAccessBlock(TRUE) ELSE o.pab
        /\ ingress = IF rule \in {"restricted-ssh", "restricted-rdp"}
                     THEN {e \in o.ingress : ~(Covers(e, PortOf(rule)) /\ OpenSource(e))}
                     ELSE o.ingress
        /\ IF rule = "required-tags"
           THEN /\ TagMap(target.type, tags) =
                     MergedTags(target.type, TagMap(target.type, o.tags),
                                get_tags_for_environment(rinv[q].environment))
                /\ target.type = "AWS::S3::Bucket" =>
                     Len(tags.TagSet) = Cardinality(TagKeys(tags.TagSet))
           ELSE tags = o.tags

\* the security group was found by every describe call of the invocation
GroupFound(q) ==
    \A i \in DOMAIN rinv[q].calls :
        rinv[q].calls[i].api = "ec2.describe_security_groups" => rinv[q].calls[i].response = "ok"

\* C23: a remediation that succeeds, at once or on a run that follows runs of
\* the same request that failed part-way, leaves the target as one
\* uninterrupted run leaves it: nothing is there twice and nothing else is
\* removed.
C23_RetryConverges ==
    \A q \in Invocations :
        Remediated(q) /\ GroupFound(q) /\ rinv[q].attempt \in {"first", "retry"} =>
            AsAfterOneRun(q)

C23_Witness ==
    \E q \in Invocations :
        /\ Remediated(q) /\ rinv[q].attempt = "retry"
        /\ RuleOf(q) = "restricted-ssh"
        /\ TcpEntry(22, 22, "IpRanges", "0.0.0.0/0") \in rinv[q].origin.ingress
        /\ TcpEntry(0, 65535, "Ipv6Ranges", "::/0") \in rinv[q].origin.ingress
        /\ Cardinality(Made(q, {"ec2.revoke_security_group_ingress"})) = 1
        /\ TcpEntry(22, 22, "IpRanges", "0.0.0.0/0") \notin ingress
        /\ TcpEntry(0, 65535, "Ipv6Ranges", "::/0") \notin ingress
        /\ TcpEntry(22, 22, "IpRanges", "10.0.0.0/8") \in ingress

\* the rules the engine has a remediation for
Catalog == S3Rules \cup {"required-tags", "restricted-ssh", "restricted-rdp"}

RemFinished(q) == rinv[q].pc \in {"returned", "raised"}

\* the invocation made no call but the credential exchange, and the target
\* is as the invocation found it
OnlyAssumedRole(q) ==
    /\ \A i \in DOMAIN rinv[q].calls : rinv[q].calls[i].api = "sts.assume_role"
    /\ rinv[q].sent = <<>>
    /\ rinv[q].attempt # "retry" => Resource(ingress, tags, pab) = rinv[q].origin

NoRemediationDefined(q) ==
    [statusCode |-> 200, body |-> <<"No remediation defined for ", RuleOf(q)>>]

\* C26 as stated: an invocation for a rule that is not in the catalog makes
\* no corrective call and returns status 200 "No remediation defined", not an
\* error.
C26_UnknownRuleSucceeds ==
    \A q \in Invocations :
        Accepted(q) /\ RuleOf(q) \notin Catalog /\ RemFinished(q) =>
            /\ OnlyAssumedRole(q)
            /\ rinv[q].pc = "returned"
            /\ rinv[q].result = NoRemediationDefined(q)

\* C26 amended: an invocation for a rule that is not in the catalog makes the
\* credential exchange and no corrective call; it returns status 200 "No
\* remediation defined" unless the credential exchange fails, and then the
\* error propagates.
C26_UnknownRuleSucceedsWithCredentials ==
    \A q \in Invocations :
        Accepted(q) /\ RuleOf(q) \notin Catalog =>
            /\ OnlyAssumedRole(q)
            /\ rinv[q].pc \in {"sts.assume_role", "returned", "raised"}
            /\ rinv[q].pc = "returned" =>
                 rinv[q].result = NoRemediationDefined(q) /\ ~AssumeRoleFailed(q)
            /\ rinv[q].pc = "raised" => AssumeRoleFailed(q)

C26_Witness ==
    \E q \in Invocations :
        /\ rinv[q].pc = "returned"
        /\ RuleOf(q) = "iam-user-mfa-enabled"
        /\ rinv[q].result = NoRemediationDefined(q)
        /\ Len(rinv[q].calls) = 1
        /\ target.type = "AWS::EC2::SecurityGroup"
        /\ ingress # {}

TypeOf(q) == Field(Get(rinv[q].event, "compliance_data", None), "resource_type")

\* the request is a required-tags remediation of a resource whose type is
\* none of the six the engine tags
UntaggableType(q) ==
    /\ Accepted(q)
    /\ RuleOf(q) = "required-tags"
    /\ TypeOf(q) \notin DOMAIN TagApi \cup {"AWS::S3::Bucket"}

\* C27 as stated: a required-tags remediation of a resource whose type is not
\* one of the six supported makes no tagging call and completes with a
\* success result, not an error.
C27_UnknownTypeSucceeds ==
    \A q \in Invocations :
        UntaggableType(q) /\ RemFinished(q) =>
            /\ OnlyAssumedRole(q)
            /\ rinv[q].pc = "returned"
            /\ rinv[q].result = Success(rinv[q])

\* C27 amended: a required-tags remediation of a resource whose type is not
\* one of the six supported makes the credential exchange and no tagging call;
\* it completes with a success result unless the credential exchange fails,
\* and then the error propagates.
C27_UnknownTypeSucceedsWithCredentials ==
    \A q \in Invocations :
        UntaggableType(q) =>
            /\ OnlyAssumedRole(q)
            /\ rinv[q].pc \in {"sts.assume_role", "returned", "raised"}
            /\ rinv[q].pc = "returned" =>
                 rinv[q].result = Success(rinv[q]) /\ ~AssumeRoleFailed(q)
            /\ rinv[q].pc = "raised" => AssumeRoleFailed(q)

C27_Witness ==
    \E q \in Invocations :
        /\ UntaggableType(q)
        /\ rinv[q].pc = "returned"
        /\ rinv[q].result.statusCode = 200
        /\ TypeOf(q) = "AWS::SNS::Topic"
        /\ Len(rinv[q].calls) = 1
        /\ TagMap(target.type, tags) = AsMap(<<Tag("Owner", "alice")>>)

\* the request has another action than "remediate", or its compliance_data
\* lacks the account id, the rule name, the resource id or the region
Malformed(ev) ==
    LET cd == Get(ev, "compliance_data", <<>>) IN
    /\ ev # None
    /\ \/ "action" \notin DOMAIN ev
       \/ ev.action # "remediate"
       \/ \E k \in {"account_id", "rule_name", "resource_id", "region"} :
             k \notin DOMAIN cd \/ cd[k] = ""

\* C28: a request with another action than "remediate", or whose
\* compliance_data lacks the account id, the rule name, the resource id or the
\* region, is answered with status 400 and has no side effect: the invocation
\* makes no credential exchange, no notification and no corrective call, and
\* the target is unchanged.
C28_MalformedRequestAnswered400 ==
    [][\A q \in Invocations :
        rinv'[q] # rinv[q] /\ Malformed(rinv'[q].event) =>
            /\ rinv'[q].pc = "returned"
            /\ rinv'[q].result.statusCode = 400
            /\ rinv'[q].result.body =
                 (IF Get(rinv'[q].event, "action", "") # "remediate"
                  THEN "Unknown action" ELSE "Missing required fields")
            /\ rinv'[q].calls = <<>>
            /\ rinv'[q].sent = <<>>
            /\ Resource(ingress, tags, pab)' = Resource(ingress, tags, pab)]_vars

C28_Witness ==
    \E q \in Invocations :
        /\ rinv[q].pc = "returned"
        /\ rinv[q].result = [statusCode |-> 400, body |-> "Missing required fields"]
        /\ "compliance_data" \in DOMAIN rinv[q].event
        /\ "region" \notin DOMAIN rinv[q].event.compliance_data
        /\ rinv[q].calls = <<>>
        /\ pab = PublicAccessBlock(TRUE)

\* C29: every credential exchange of an invocation names the role
\* arn:aws:iam::{account_id}:role/CloudGovernanceRemediationRole of the account
\* in the invocation's compliance_data and passes the fixed external id.
C29_RoleOfOwnAccount ==
    \A q \in Invocations :
        \A i \in Made(q, {"sts.assume_role"}) :
            /\ rinv[q].calls[i].RoleArn =
                 <<"arn:aws:iam::", rinv[q].event.compliance_data.account_id,
                   ":role/", "CloudGovernanceRemediationRole">>
            /\ rinv[q].calls[i].ExternalId = "CloudGovernance-Remediation-2024"
            /\ rinv[q].calls[i].RoleSessionName = "GovernanceRemediationEngine"

C29_Witness ==
    \E q \in Invocations :
        /\ Made(q, {"sts.assume_role"}) # {}
        /\ AccountOf(q) = ProdAccount
        /\ target.account = ProdAccount
        /\ rinv[q].pc = "returned"

\* the default tag set of the environment the account map gives the account,
\* the fallback set for an account the map does not name
TagSetOfAccount(account_id) ==
    IF account_id \in DOMAIN rcfg.ACCOUNT_ENVIRONMENT_MAP
    THEN DEFAULT_TAGS_BY_ENV[rcfg.ACCOUNT_ENVIRONMENT_MAP[account_id]]
    ELSE DEFAULT_TAGS_FALLBACK

EnvironmentOfAccount(account_id) ==
    IF account_id \in DOMAIN rcfg.ACCOUNT_ENVIRONMENT_MAP
    THEN rcfg.ACCOUNT_ENVIRONMENT_MAP[account_id]
    ELSE "unknown"

\* C30: the tags a required-tags remediation applies are those of the
\* environment of the violation's account: a tagging call carries the default
\* tag set of the environment the account is mapped to (dev, staging, prod,
\* governance, tooling), whose Environment tag names that environment, and the
\* fallback set with Environment=unknown for an account absent from the map;
\* the tag set written to a bucket has every key of that set, with the value
\* of that set where the bucket did not have the key.
C30_TagsOfAccountEnvironment ==
    \A q \in Invocations :
        \A i \in DOMAIN rinv[q].calls :
            LET call == rinv[q].calls[i]
                expected == TagSetOfAccount(rinv[q].event.compliance_data.account_id)
                env == EnvironmentOfAccount(rinv[q].event.compliance_data.account_id)
            IN /\ call.api \in {TagApi[r] : r \in DOMAIN TagApi} =>
                    /\ call.Tags = expected
                    /\ TagValue(call.Tags, "Environment") = env
               /\ call.api = "s3.put_bucket_tagging" =>
                    \A k \in TagKeys(expected) :
                        /\ k \in TagKeys(call.TagSet)
                        /\ k \notin TagKeys(rinv[q].current_tags) =>
                             /\ TagValue(call.TagSet, k) = TagValue(expected, k)
                             /\ k = "Environment" => TagValue(call.TagSet, k) = env

C30_Witness ==
    \E q \in Invocations :
        /\ rinv[q].pc = "returned"
        /\ rinv[q].result.statusCode = 200
        /\ AccountOf(q) = OtherAccount
        /\ rinv[q].environment = "unknown"
        /\ Made(q, {TagApi[r] : r \in DOMAIN TagApi}) # {}
        /\ "Environment" \in DOMAIN tags
        /\ tags["Environment"] = "unknown"

\* the positions of an invocation inside a remediation action
ActionPcs ==
    { "s3.put_public_access_block", "s3.get_bucket_tagging", "s3.put_bucket_tagging",
      "sts.get_caller_identity", "ec2.describe_security_groups",
      "ec2.revoke_security_group_ingress" } \cup {TagApi[r] : r \in DOMAIN TagApi}

\* C33: a remediation invocation goes from the receipt of the request through
\* the resolution of the environment and the safety check to the credential
\* exchange, from there into the action and from there to its end.  Every call
\* of an action comes after a credential exchange that succeeded, first among
\* the calls of the same invocation, and in an invocation the safety check
\* did not veto; a vetoed invocation goes to the notification and from there
\* to its return, and makes no call at all.
C33_PhasesInOrder ==
    /\ [](\A q \in Invocations :
            Accepted(q) =>
                /\ rinv[q].environment = EnvironmentOfAccount(AccountOf(q))
                /\ \A i \in DOMAIN rinv[q].calls :
                      rinv[q].calls[i].api # "sts.assume_role" =>
                          /\ i > 1
                          /\ rinv[q].calls[1].api = "sts.assume_role"
                          /\ rinv[q].calls[1].response = "ok"
                          /\ ~Vetoed(q)
                /\ Vetoed(q) => rinv[q].calls = <<>> /\ rinv[q].pc \in {"lambda.invoke", "returned"}
                /\ rinv[q].pc = "lambda.invoke" => Vetoed(q)
                /\ rinv[q].sent # <<>> => Vetoed(q)
                /\ rinv[q].pc \in ActionPcs =>
                      rinv[q].calls # <<>> /\ rinv[q].calls[1].response = "ok")
    /\ [][\A q \in Invocations :
            rinv'[q] # rinv[q] =>
                /\ rinv[q].pc \in {"idle", "returned", "raised"} =>
                      rinv'[q].pc \in {"returned", "sts.assume_role", "lambda.invoke"}
                /\ rinv[q].pc = "lambda.invoke" => rinv'[q].pc = "returned"
                /\ rinv[q].pc = "sts.assume_role" =>
                      rinv'[q].pc \in ActionPcs \cup {"returned", "raised"}
                /\ rinv[q].pc \in ActionPcs =>
                      rinv'[q].pc \in ActionPcs \cup {"returned", "raised"}]_vars

C33_Witness ==
    \E q \in Invocations :
        /\ rinv[q].pc = "returned"
        /\ rinv[q].result.statusCode = 200
        /\ RuleOf(q) = "restricted-ssh"
        /\ Len(rinv[q].calls) = 3
        /\ rinv[q].calls[3].api = "ec2.revoke_security_group_ingress"
        /\ rinv[q].calls[3].response = "ok"

\* the tags the bucket had when the invocation began, none for a bucket with
\* no tag set
ExistingTags(q) == IF rinv[q].origin.tags = None THEN <<>> ELSE rinv[q].origin.tags.TagSet

BucketTagging(q) ==
    Accepted(q) /\ RuleOf(q) = "required-tags" /\ TypeOf(q) = "AWS::S3::Bucket"

\* C35: the tag remediation of a bucket reads the tags and then writes the
\* tags the bucket had, in their order, followed by the default tags of the
\* environment whose key the bucket did not have; a bucket with no tag set
\* counts as a bucket with no tags, and a read that fails ends the invocation
\* with the error, nothing written and the bucket's tags as they were.
C35_BucketTagsReadModifyWrite ==
    \A q \in Invocations :
        BucketTagging(q) =>
            LET defaults == get_tags_for_environment(EnvironmentOfAccount(AccountOf(q)))
                written == ExistingTags(q) \o
                           SelectSeq(defaults, LAMBDA t : t.Key \notin TagKeys(ExistingTags(q)))
            IN /\ \A i \in Made(q, {"s3.put_bucket_tagging"}) :
                    /\ i > 1
                    /\ rinv[q].calls[i - 1].api = "s3.get_bucket_tagging"
                    /\ rinv[q].calls[i - 1].response = "ok"
                    /\ rinv[q].calls[i].TagSet = written
                    /\ rinv[q].calls[i].response = "ok" => tags = [TagSet |-> written]
               /\ \A i \in Made(q, {"s3.get_bucket_tagging"}) :
                    rinv[q].calls[i].response = "error" =>
                        /\ rinv[q].pc = "raised"
                        /\ Made(q, {"s3.put_bucket_tagging"}) = {}
                        /\ tags = rinv[q].origin.tags

C35_Witness ==
    \E q \in Invocations :
        /\ BucketTagging(q)
        /\ rinv[q].pc = "returned"
        /\ rinv[q].attempt = "first"
        /\ rinv[q].origin.tags = [TagSet |-> <<Tag("Team", "core"), Tag("Environment", "legacy")>>]
        /\ Len(tags.TagSet) = 6
        /\ tags.TagSet[2] = Tag("Environment", "legacy")
        /\ tags.TagSet[3] = Tag("Owner", "Platform-Engineering")

\* the invocation made the credential exchange, first of its calls, and was
\* not turned into a notification
AcquiredCredentials(q) ==
    /\ rinv[q].sent = <<>>
    /\ rinv[q].calls # <<>>
    /\ rinv[q].calls[1].api = "sts.assume_role"

\* C36: the production veto stops restricted-ssh and restricted-rdp only.  An
\* S3 public-access or required-tags invocation, in a production account as
\* in any other, is never at the notification; once past the credential
\* exchange it has made it, and when it returns it has made the public access
\* block call or, on a supported type, the tagging call.  A restricted-ssh or
\* restricted-rdp invocation in an account that is not production is never at
\* the notification either; when it returns it has made the credential
\* exchange and the describe call, and a revoke call if the group had a rule
\* to revoke.
C36_VetoOnlyIngressRulesInProduction ==
    \A q \in Invocations :
        Accepted(q) =>
            /\ RuleOf(q) \in S3Rules \cup {"required-tags"} =>
                 /\ rinv[q].pc # "lambda.invoke"
                 /\ rinv[q].pc # "sts.assume_role" => AcquiredCredentials(q)
                 /\ rinv[q].pc = "returned" /\ RuleOf(q) \in S3Rules =>
                      Made(q, {"s3.put_public_access_block"}) # {} /\ pab = PublicAccessBlock(TRUE)
                 /\ rinv[q].pc = "returned" /\ RuleOf(q) = "required-tags"
                        /\ TypeOf(q) \in SupportedTypes =>
                      Made(q, {"s3.put_bucket_tagging"} \cup {TagApi[r] : r \in DOMAIN TagApi}) # {}
            /\ RuleOf(q) \in {"restricted-ssh", "restricted-rdp"} /\ ~Production(AccountOf(q)) =>
                 /\ rinv[q].pc # "lambda.invoke"
                 /\ rinv[q].pc # "sts.assume_role" => AcquiredCredentials(q)
                 /\ rinv[q].pc = "returned" =>
                      /\ Made(q, {"ec2.describe_security_groups"}) # {}
                      /\ rinv[q].attempt = "first"
                            /\ rules_to_revoke(IpPermissions(rinv[q].origin.ingress),
                                               target_port(RuleOf(q))) # <<>> =>
                           Made(q, {"ec2.revoke_security_group_ingress"}) # {}

C36_Witness ==
    \E q \in Invocations :
        /\ Accepted(q)
        /\ Production(AccountOf(q))
        /\ AccountOf(q) = ProdAccount
        /\ RuleOf(q) = "required-tags"
        /\ rinv[q].pc = "returned"
        /\ Made(q, {"ec2.create_tags"}) # {}
        /\ "CostCenter" \in DOMAIN tags
        /\ tags["CostCenter"] = "PROD-001"

\* C37: every request the policy engine sends to the remediation engine is
\* for a rule classified LOW, every such rule is in the catalog of the
\* remediation engine, and a remediation invocation on such a request is never
\* in the branch that answers "No remediation defined".
C37_LowRulesHaveRemediation ==
    /\ \A p \in Invocations :
          \A i \in DOMAIN inv[p].sent :
              inv[p].sent[i].FunctionName = "REMEDIATION_LAMBDA" =>
                  /\ classify_severity(inv[p].sent[i].Payload.compliance_data.rule_name) = "LOW"
                  /\ inv[p].sent[i].Payload.compliance_data.rule_name \in
                       { "required-tags", "s3-bucket-public-read-prohibited",
                         "s3-bucket-level-public-access-prohibited",
                         "s3-bucket-public-write-prohibited",
                         "restricted-ssh", "restricted-rdp" }
    /\ \A q \in Invocations :
          rinv[q].pc # "idle" =>
              /\ rinv[q].event.compliance_data.severity = "LOW"
              /\ RuleOf(q) \in Catalog
              /\ rinv[q].pc = "returned" /\ ~Vetoed(q) =>
                   /\ Len(rinv[q].calls) >= 2
                   /\ rinv[q].result = Success(rinv[q])

C37_Witness ==
    \E p \in Invocations, q \in Invocations :
        /\ inv[p].pc = "returned"
        /\ inv[p].compliance_data.rule_name = "restricted-rdp"
        /\ rinv[q].pc = "returned"
        /\ rinv[q].event = inv[p].sent[1].Payload
        /\ rinv[q].result = Success(rinv[q])
        /\ Made(q, {"ec2.describe_security_groups"}) # {}

\* C38: the production safety check comes before the credential exchange: an
\* invocation the check vetoes makes no assume_role call, neither before nor
\* after its notification.
C38_NoCredentialsWhenVetoed ==
    \A q \in Invocations :
        Vetoed(q) => Made(q, {"sts.assume_role"}) = {}

C38_Witness ==
    \E q \in Invocations :
        /\ Vetoed(q)
        /\ rinv[q].pc = "returned"
        /\ RuleOf(q) = "restricted-rdp"
        /\ AccountOf(q) = ProdAccount
        /\ Len(rinv[q].sent) = 1
        /\ rinv[q].calls = <<>>

\* the invocation has written the tags of the bucket
WroteBucketTags(q) ==
    \E i \in Made(q, {"s3.put_bucket_tagging"}) : rinv[q].calls[i].response = "ok"

\* C39: when required-tags remediations of one bucket run concurrently and
\* nobody else writes the bucket, then under every interleaving of their reads
\* and writes, once an invocation has written, the bucket has the tag set one
\* remediation alone gives the bucket as the invocation found it: every tag
\* the bucket had, with its value, the missing default tags after them, and no
\* key twice.
C39_ConcurrentBucketTaggingAsOne ==
    \A q \in Invocations :
        WroteBucketTags(q) =>
            LET defaults == get_tags_for_environment(EnvironmentOfAccount(target.account))
                single == ExistingTags(q) \o
                          SelectSeq(defaults, LAMBDA t : t.Key \notin TagKeys(ExistingTags(q)))
            IN /\ tags = [TagSet |-> single]
               /\ \A i \in DOMAIN ExistingTags(q) :
                     \E j \in DOMAIN tags.TagSet : tags.TagSet[j] = ExistingTags(q)[i]
               /\ Cardinality(TagKeys(tags.TagSet)) = Len(tags.TagSet)

C39_Witness ==
    \E p \in Invocations, q \in Invocations :
        /\ p # q
        /\ WroteBucketTags(p) /\ WroteBucketTags(q)
        /\ rinv[p].pc = "returned" /\ rinv[q].pc = "returned"
        /\ rinv[p].attempt = "first" /\ rinv[q].attempt = "first"
        /\ rinv[p].origin = rinv[q].origin
        /\ rinv[p].current_tags = <<Tag("Owner", "alice")>>
        /\ rinv[q].current_tags = <<Tag("Owner", "alice")>>
        /\ rinv[p].origin.tags = [TagSet |-> <<Tag("Owner", "alice")>>]
        /\ Len(tags.TagSet) = 5

====
